---- MODULE Spec2Model ----
(***************************************************************************)
(* Verification model of the rCore teaching kernel (os/ and easy-fs/).     *)
(*                                                                         *)
(* Subsystems, each with its own next-state relation and specification:    *)
(*   SpecDLD   DLDCBInner, the Banker's-algorithm deadlock detector        *)
(*             (os/src/task/process.rs).                                   *)
(*   SpecPCB   the deadlock detection of one process: enabling, disabling  *)
(*             and the detector's mutex and semaphore families             *)
(*             (os/src/task/process.rs).                                   *)
(*   SpecSched the stride scheduler: the ready queue, dispatch, re-enqueue *)
(*             and sys_set_priority (os/src/task/manager.rs,               *)
(*             os/src/syscall/process.rs).                                 *)
(*   SpecProc  one process with its children: sys_fork, the exit of a      *)
(*             child and sys_waitpid (os/src/syscall/process.rs).          *)
(*   SpecExec  ProcessControlBlock::exec: the argument strings and the    *)
(*             argv array on the user stack (os/src/task/process.rs).      *)
(*   SpecMmap  sys_mmap (os/src/syscall/process.rs).                       *)
(*   SpecCopy  copy_to_buffers (os/src/syscall/process.rs).                *)
(*   SpecFs    the root directory of easy-fs: create, create_link_id,      *)
(*             destroy_link, write_at and ls (easy-fs/src/vfs.rs).         *)
(*   SpecReq   the detector as mutexes and semaphores call it: requests,   *)
(*             waiting and matched releases (os/src/task/process.rs).      *)
(*   SpecLock  the file system's lock in the operations of Inode, for      *)
(*             interleaved call chains (easy-fs/src/vfs.rs).               *)
(*   SpecTree  the process tree and the borrows of the control blocks in   *)
(*             the system calls of a process (os/src/syscall/process.rs,   *)
(*             os/src/task/process.rs).                                    *)
(*   SpecWrap  the stride scheduler in a long run, up to the wrap-around   *)
(*             of the stride counter (os/src/task/manager.rs).             *)
(*                                                                         *)
(* Conventions.  A Rust Vec is a sequence; Vec index i is sequence index   *)
(* i + 1.  Option<T> is a sequence of length 0 (None) or 1 (Some(x)).      *)
(* A kernel panic (assert!, unwrap on None, index out of bounds) sets      *)
(* `panicked`; the kernel is then halted and no operation runs any more.   *)
(* What a panicking file-system call had written to the disk stays there. *)
(* `call` records the operation that ran last, its arguments and its       *)
(* return value.                                                           *)
(***************************************************************************)
EXTENDS Integers, Sequences, FiniteSets, TLC

VARIABLES
    dld,        \* a DLDCBInner: [avail, alloc, need]
    pcb,        \* a ProcessControlBlockInner: [tasks, mutex_list, semaphore_list,
                \*   deadlock_detect, deadlock_ctl]
    tcb,        \* the tasks created so far: tcb[t] = [stride, priority]
    ready_queue,\* TaskManager.ready_queue: the Vec of the BinaryHeap<PTCB>
    current,    \* the task the processor runs: Some(t) or None
    enq_order,  \* history: the queued tasks, in the order they were added
    passes,     \* history: passes[t] counts the changes of t's stride since
                \*   t was last dispatched
    dispatched, \* history: the tasks that have been dispatched
    children,   \* the calling process's children: a Vec of
                \*   [pid, is_zombie, exit_code, strong_count]
    user_exit_code, \* the i32 in user memory that exit_code_ptr points to
    trap_cx,    \* the trap context of the calling process's main thread:
                \*   [x10, x11, sp, kernel_sp]
    umem,       \* the bytes of the calling process's user stack, by address
    exec_args,  \* the arguments the process passes to exec
    copy_src,   \* the bytes copy_to_buffers is to copy
    copy_dest,  \* the destination of copy_to_buffers: a Vec of byte slices
    disk,       \* the easy-fs disk inodes, disk[id + 1] = [type, nlink, data];
                \*   inode 0 is the root directory, whose data are its entries
                \*   [name, inode_id]; a file's data are its bytes
    ledger,     \* history of the detector's callers: owed[<<t, j>>] counts the
                \*   requests of thread t for resource j that returned 0 and
                \*   have not been released yet; held[<<t, j>>] counts the
                \*   units of j that t has acquired, at once or after waiting,
                \*   and not released; given[j] is the number of units
                \*   add_res was called with
    logical,    \* history: logical[t] is the stride of task t as the sum of
                \*   the passes added to it, without the counter's wrap-around
    procs,      \* the process tree: procs[p] is None or Some of process p's
                \*   [pid, is_zombie, exit_code, strong_count, parent, children,
                \*   tasks], children being the pids of its children
    borrowed,   \* the outstanding borrows of the UPSafeCells, oldest first:
                \*   [cell, excl]
    todo,       \* what the running system call still has to do: its borrows,
                \*   releases, assertions and its return
    fs_lock,    \* the file system's lock (Arc<Mutex<EasyFileSystem>>): the call
                \*   chain that holds it, or 0
    stacks,     \* stacks[c]: the Inode calls of call chain c in progress, the
                \*   innermost last, each [fn, pc, holds]: the function, the
                \*   next step of it, and whether its MutexGuard is alive
    deadlocked, \* the call chains that spin on the lock they hold themselves
    areas,      \* the address space of the calling process: the mapped
                \*   virtual pages, areas[vpn] = the page's permissions
    call,       \* the last call: [op, ..., ret]
    panicked,   \* TRUE once the kernel has panicked
    ncalls      \* the number of calls made so far

vars == <<dld, pcb, tcb, ready_queue, current, enq_order, passes, dispatched,
          children, user_exit_code, trap_cx, umem, exec_args, copy_src, copy_dest,
          areas, disk, ledger, fs_lock, stacks, deadlocked, procs, borrowed,
          todo, logical, call, panicked, ncalls>>

----------------------------------------------------------------------------
(* Bounds of the model *)

\* thread ids are 0..MaxTid
MaxTid == 1
\* resource ids (mutex / semaphore ids) are 0..MaxRes
MaxRes == 1
\* a resource is added with 0..MaxUnits units
MaxUnits == 2
\* the width of usize in the model
UsizeBits == 6
\* a run makes at most MaxCalls calls
MaxCalls == 7
\* at most MaxTasks tasks are created
MaxTasks == 4
\* a run of the scheduler makes at most MaxSchedCalls calls
MaxSchedCalls == 14
\* sys_set_priority is called with -1..MaxPrio
MaxPrio == 4
\* a process has at most MaxChildren children at a time, with pids
\* 1..MaxChildren
MaxChildren == 3
\* a child exits with a code in 0..MaxExit
MaxExit == 1
\* a process and its children make at most MaxProcCalls calls in a run
MaxProcCalls == 6
\* exec gets at most MaxArgs arguments of at most MaxArgLen bytes in
\* 0..MaxByte
MaxArgs == 2
MaxArgLen == 2
MaxByte == 1
\* sys_mmap is called with a start in pages 0..MaxPage, a length of up to
\* MaxLenPages pages and a byte more, and a port in 0..MaxPort, at most
\* MaxMmapCalls times in a run
MaxPage == 1
MaxLenPages == 1
MaxPort == 8
MaxMmapCalls == 2
\* copy_to_buffers copies at most MaxSrc bytes in 0..MaxByte into at most
\* MaxBufs slices of at most MaxBufLen bytes
MaxSrc == 3
MaxBufs == 3
MaxBufLen == 2
\* the file system is called at most MaxFsCalls times in a run, with the
\* empty name or one of MaxName other names
MaxFsCalls == 5
MaxName == 2
\* MaxChains call chains (threads of the kernel) use the file system
MaxChains == 2
\* the process tree has the pids 0..MaxProcs and runs MaxTreeCalls system calls
MaxProcs == 2
MaxTreeCalls == 5
\* a long run of the scheduler has at most MaxWrapTasks tasks and makes at
\* most MaxWrapCalls calls
MaxWrapTasks == 2
MaxWrapCalls == 50

Tids == 0..MaxTid
ResIds == 0..MaxRes

----------------------------------------------------------------------------
(* Option<T> and Vec<T> *)

None == <<>>
Some(x) == <<x>>
is_some(o) == Len(o) = 1
is_none(o) == Len(o) = 0
unwrap(o) == o[1]

\* v[i] of a Vec, i counted from 0
At(v, i) == v[i + 1]
\* i is a valid index of Vec v
InVec(v, i) == i >= 0 /\ i < Len(v)
\* n copies of x
Repeat(x, n) == [k \in 1..n |-> x]
\* the smallest element of a non-empty set of integers
Min(S) == CHOOSE x \in S : \A y \in S : x <= y

\* usize is modelled UsizeBits wide (the kernel's is 64 bits wide)
UsizeMod == 2 ^ UsizeBits
\* usize subtraction without overflow checks
WrappingSub(a, b) == (a - b) % UsizeMod
\* `x as usize` of an isize
AsUsize(x) == x % UsizeMod

----------------------------------------------------------------------------
(* DLDCBInner *)

\* DLDCBInner::new
DLDCBInner_new == [avail |-> <<>>, alloc |-> <<>>, need |-> <<>>]

\* the closure add_to_matrix of add_thread: the matrix with row `id` set to a
\* vector holding Some(0) for every present resource; panic when the row exists
add_thread_matrix(matrix, avail, id) ==
    LET new == [k \in 1..Len(avail) |-> IF is_some(avail[k]) THEN Some(0) ELSE None]
    IN  IF id < Len(matrix)
        THEN [panic |-> ~is_none(At(matrix, id)),
              matrix |-> [matrix EXCEPT ![id + 1] = Some(new)]]
        ELSE [panic |-> FALSE,
              matrix |-> matrix \o Repeat(None, id - Len(matrix)) \o <<Some(new)>>]

\* DLDCBInner::add_thread
add_thread(self, id) ==
    LET a == add_thread_matrix(self.alloc, self.avail, id)
        n == add_thread_matrix(self.need, self.avail, id)
    IN  [panic |-> a.panic \/ n.panic,
         self |-> [avail |-> self.avail, alloc |-> a.matrix, need |-> n.matrix]]

\* the closure add_to_matrix of add_res, branch res_type < avail.len():
\* every present row gets Some(0) at res_type; panic when the slot is taken
add_res_matrix_in(matrix, res_type) ==
    [panic |-> \E i \in 1..Len(matrix) :
                  is_some(matrix[i]) /\ ~is_none(At(unwrap(matrix[i]), res_type)),
     matrix |-> [i \in 1..Len(matrix) |->
                  IF is_some(matrix[i])
                  THEN Some([unwrap(matrix[i]) EXCEPT ![res_type + 1] = Some(0)])
                  ELSE None]]

\* the closure add_to_matrix of add_res, branch res_type >= avail.len():
\* every present row is padded with None up to res_type and gets Some(0)
add_res_matrix_out(matrix, res_type) ==
    [i \in 1..Len(matrix) |->
        IF is_some(matrix[i])
        THEN LET b == unwrap(matrix[i])
             IN  Some(b \o Repeat(None, res_type - Len(b)) \o <<Some(0)>>)
        ELSE None]

\* DLDCBInner::add_res
add_res(self, res_type, res_avail) ==
    IF res_type < Len(self.avail)
    THEN LET a == add_res_matrix_in(self.alloc, res_type)
             n == add_res_matrix_in(self.need, res_type)
         IN  [panic |-> ~is_none(At(self.avail, res_type)) \/ a.panic \/ n.panic,
              self |-> [avail |-> [self.avail EXCEPT ![res_type + 1] = Some(res_avail)],
                        alloc |-> a.matrix, need |-> n.matrix]]
    ELSE [panic |-> FALSE,
          self |-> [avail |-> self.avail \o Repeat(None, res_type - Len(self.avail))
                                  \o <<Some(res_avail)>>,
                    alloc |-> add_res_matrix_out(self.alloc, res_type),
                    need |-> add_res_matrix_out(self.need, res_type)]]

\* a tentative update that grants the units without taking them from avail
get_resource_tentative_keeps_avail(self, request_resource, thread_id, res_type) ==
    LET avail == unwrap(At(self.avail, res_type))
        alloc == unwrap(At(unwrap(At(self.alloc, thread_id)), res_type))
    IN  IF request_resource > avail
        THEN [self EXCEPT !.need[thread_id + 1] =
                 Some([unwrap(@) EXCEPT ![res_type + 1] = Some(request_resource)])]
        ELSE [avail |-> self.avail,
              alloc |-> [self.alloc EXCEPT ![thread_id + 1] =
                 Some([unwrap(@) EXCEPT ![res_type + 1] = Some(alloc + request_resource)])],
              need |-> [self.need EXCEPT ![thread_id + 1] =
                 Some([unwrap(@) EXCEPT ![res_type + 1] = Some(0)])]]

\* the tentative update of get_resource: the request is granted when enough
\* units are available, and recorded in need otherwise
get_resource_tentative(self, request_resource, thread_id, res_type) ==
    LET avail == unwrap(At(self.avail, res_type))
        alloc == unwrap(At(unwrap(At(self.alloc, thread_id)), res_type))
    IN  IF request_resource > avail
        THEN [self EXCEPT !.need[thread_id + 1] =
                 Some([unwrap(@) EXCEPT ![res_type + 1] = Some(request_resource)])]
        ELSE [avail |-> [self.avail EXCEPT ![res_type + 1] = Some(avail - request_resource)],
              alloc |-> [self.alloc EXCEPT ![thread_id + 1] =
                 Some([unwrap(@) EXCEPT ![res_type + 1] = Some(alloc + request_resource)])],
              need |-> [self.need EXCEPT ![thread_id + 1] =
                 Some([unwrap(@) EXCEPT ![res_type + 1] = Some(0)])]]

\* a comparison that lets a thread finish with one unit too few
need_exceeds_work_off_by_one(need_num, work_num) == need_num > work_num + 1

\* the comparison of the safety check: thread i cannot finish on resource j
need_exceeds_work(need_num, work_num) == need_num > work_num

\* the closure given to `find`, on thread i: "true", "false", or "panic" when
\* work[j] is unwrapped and is None.  A finished thread is skipped; a thread
\* with no need row passes; the resources are visited in order and the first
\* one whose need exceeds work rejects the thread.
find_closure(self, work, finish, i) ==
    IF At(finish, i) THEN "false"
    ELSE IF is_none(At(self.need, i)) THEN "true"
    ELSE LET n == unwrap(At(self.need, i))
             stop == {j \in 1..Len(n) :
                         is_some(n[j]) /\ (\/ j > Len(work)
                                           \/ is_none(work[j])
                                           \/ need_exceeds_work(unwrap(n[j]), unwrap(work[j])))}
         IN  IF stop = {} THEN "true"
             ELSE LET j == Min(stop)
                  IN  IF j > Len(work) \/ is_none(work[j]) THEN "panic" ELSE "false"

\* finish.iter().enumerate().find(..): the first thread the closure accepts
find_task(self, work, finish) ==
    LET hit == {i \in 0..(Len(finish) - 1) : find_closure(self, work, finish, i) # "false"}
    IN  IF hit = {} THEN [panic |-> FALSE, found |-> FALSE, i |-> 0]
        ELSE [panic |-> find_closure(self, work, finish, Min(hit)) = "panic",
              found |-> TRUE, i |-> Min(hit)]

\* the loop over work after thread i was found: work[j] += alloc[i][j] for each
\* present resource; alloc[i] and alloc[i][j] are unwrapped
work_add(self, work, i) ==
    IF is_none(At(self.alloc, i))
    THEN [panic |-> \E j \in 1..Len(work) : is_some(work[j]), work |-> work]
    ELSE LET a == unwrap(At(self.alloc, i))
         IN  [panic |-> \E j \in 1..Len(work) :
                            is_some(work[j]) /\ (j > Len(a) \/ is_none(a[j])),
              work |-> [j \in 1..Len(work) |->
                            IF is_some(work[j]) /\ j <= Len(a) /\ is_some(a[j])
                            THEN Some(unwrap(work[j]) + unwrap(a[j]))
                            ELSE work[j]]]

\* the `loop` of get_resource: repeatedly finish the first thread that can
\* finish, until none is found
RECURSIVE safety_loop(_, _, _)
safety_loop(self, work, finish) ==
    LET task == find_task(self, work, finish)
    IN  IF task.panic THEN [panic |-> TRUE, finish |-> finish]
        ELSE IF ~task.found THEN [panic |-> FALSE, finish |-> finish]
        ELSE LET w == work_add(self, work, task.i)
             IN  IF w.panic THEN [panic |-> TRUE, finish |-> finish]
                 ELSE safety_loop(self, w.work, [finish EXCEPT ![task.i + 1] = TRUE])

\* the three assertions of get_resource and the unwraps of the borrowed cells
get_resource_asserts(self, thread_id, res_type) ==
    /\ InVec(self.avail, res_type) /\ is_some(At(self.avail, res_type))
    /\ InVec(self.alloc, thread_id) /\ is_some(At(self.alloc, thread_id))
    /\ InVec(self.need, thread_id) /\ is_some(At(self.need, thread_id))
    /\ InVec(unwrap(At(self.alloc, thread_id)), res_type)
    /\ is_some(At(unwrap(At(self.alloc, thread_id)), res_type))
    /\ InVec(unwrap(At(self.need, thread_id)), res_type)
    /\ is_some(At(unwrap(At(self.need, thread_id)), res_type))

\* a failed check that leaves the tentative update in place
get_resource_restore_nothing(bak, tentative) == tentative

\* the state get_resource leaves when the check fails: the snapshots
\* avail_bak, alloc_bak, need_bak taken on entry
get_resource_restore(bak, tentative) == bak

\* DLDCBInner::get_resource
get_resource(self, request_resource, thread_id, res_type) ==
    IF ~get_resource_asserts(self, thread_id, res_type)
    THEN [panic |-> TRUE, ret |-> 0, self |-> self]
    ELSE LET t == get_resource_tentative(self, request_resource, thread_id, res_type)
             r == safety_loop(t, t.avail, Repeat(FALSE, Len(t.alloc)))
         IN  IF r.panic THEN [panic |-> TRUE, ret |-> 0, self |-> self]
             ELSE IF \E i \in 1..Len(r.finish) : ~r.finish[i]
                  THEN [panic |-> FALSE, ret |-> -1, self |-> get_resource_restore(self, t)]
                  ELSE [panic |-> FALSE, ret |-> 0, self |-> t]

\* the assertions of release_resource
release_resource_asserts(self, thread_id, res_type) ==
    /\ InVec(self.avail, res_type) /\ is_some(At(self.avail, res_type))
    /\ InVec(self.alloc, thread_id) /\ is_some(At(self.alloc, thread_id))
    /\ InVec(self.need, thread_id) /\ is_some(At(self.need, thread_id))
    /\ InVec(unwrap(At(self.alloc, thread_id)), res_type)
    /\ is_some(At(unwrap(At(self.alloc, thread_id)), res_type))

\* DLDCBInner::release_resource.  `underflow` says that alloc < released: the
\* subtraction then panics in a build with overflow checks and wraps otherwise.
release_resource(self, released_resource, thread_id, res_type) ==
    IF ~release_resource_asserts(self, thread_id, res_type)
    THEN [panic |-> TRUE, underflow |-> FALSE, self |-> self]
    ELSE LET avail == unwrap(At(self.avail, res_type))
             alloc == unwrap(At(unwrap(At(self.alloc, thread_id)), res_type))
         IN  [panic |-> FALSE,
              underflow |-> alloc < released_resource,
              self |-> [avail |-> [self.avail EXCEPT ![res_type + 1] =
                                        Some(avail + released_resource)],
                        alloc |-> [self.alloc EXCEPT ![thread_id + 1] =
                                        Some([unwrap(@) EXCEPT ![res_type + 1] =
                                            Some(WrappingSub(alloc, released_resource))])],
                        need |-> self.need]]

----------------------------------------------------------------------------
(* DeadLockDetectControlBlock and ProcessControlBlockInner *)

\* DeadLockDetectControlBlock::new
DeadLockDetectControlBlock_new == [mtx |-> DLDCBInner_new, sem |-> DLDCBInner_new]

\* DeadLockDetectControlBlock::add_thread
ctl_add_thread(ctl, id) ==
    LET m == add_thread(ctl.mtx, id)
        s == add_thread(ctl.sem, id)
    IN  [panic |-> m.panic \/ s.panic, ctl |-> [mtx |-> m.self, sem |-> s.self]]

\* DeadLockDetectControlBlock::add_mutex
add_mutex(ctl, id) ==
    LET r == add_res(ctl.mtx, id, 1)
    IN  [panic |-> r.panic, ctl |-> [ctl EXCEPT !.mtx = r.self]]

\* DeadLockDetectControlBlock::add_semaphore
add_semaphore(ctl, id, avail) ==
    LET r == add_res(ctl.sem, id, avail)
    IN  [panic |-> r.panic, ctl |-> [ctl EXCEPT !.sem = r.self]]

\* a get_mutex_resource that passes its arguments in the wrong order
get_mutex_resource_swapped(ctl, thread_id, mutex_id) ==
    LET r == get_resource(ctl.mtx, 1, mutex_id, thread_id)
    IN  [panic |-> r.panic, ret |-> r.ret, ctl |-> [ctl EXCEPT !.mtx = r.self]]

\* DeadLockDetectControlBlock::get_mutex_resource
get_mutex_resource(ctl, thread_id, mutex_id) ==
    LET r == get_resource(ctl.mtx, 1, thread_id, mutex_id)
    IN  [panic |-> r.panic, ret |-> r.ret, ctl |-> [ctl EXCEPT !.mtx = r.self]]

\* DeadLockDetectControlBlock::get_semaphore_resource
get_semaphore_resource(ctl, thread_id, semaphore_id) ==
    LET r == get_resource(ctl.sem, 1, thread_id, semaphore_id)
    IN  [panic |-> r.panic, ret |-> r.ret, ctl |-> [ctl EXCEPT !.sem = r.self]]

\* DeadLockDetectControlBlock::release_mutex_resource
release_mutex_resource(ctl, thread_id, mutex_id) ==
    LET r == release_resource(ctl.mtx, 1, thread_id, mutex_id)
    IN  [panic |-> r.panic, underflow |-> r.underflow,
         ctl |-> [ctl EXCEPT !.mtx = r.self]]

\* DeadLockDetectControlBlock::release_semaphore_resource
release_semaphore_resource(ctl, thread_id, semaphore_id) ==
    LET r == release_resource(ctl.sem, 1, thread_id, semaphore_id)
    IN  [panic |-> r.panic, underflow |-> r.underflow,
         ctl |-> [ctl EXCEPT !.sem = r.self]]

\* the fields of ProcessControlBlockInner that ProcessControlBlock::new sets,
\* with the given thread table
ProcessControlBlockInner_new(tasks) ==
    [tasks |-> tasks,
     mutex_list |-> <<>>,
     semaphore_list |-> <<>>,
     deadlock_detect |-> FALSE,
     deadlock_ctl |-> DeadLockDetectControlBlock_new]

\* the loop of enable_deadlock_detect over tasks, from slot id on: every
\* occupied slot is registered with the detector
RECURSIVE enable_add_threads(_, _, _)
enable_add_threads(ctl, tasks, id) ==
    IF id >= Len(tasks) THEN [panic |-> FALSE, ctl |-> ctl]
    ELSE IF is_some(At(tasks, id))
         THEN LET r == ctl_add_thread(ctl, id)
              IN  IF r.panic THEN [panic |-> TRUE, ctl |-> ctl]
                  ELSE enable_add_threads(r.ctl, tasks, id + 1)
         ELSE enable_add_threads(ctl, tasks, id + 1)

\* ProcessControlBlockInner::enable_deadlock_detect
enable_deadlock_detect(self) ==
    IF ~(self.mutex_list = <<>> /\ self.semaphore_list = <<>>)
    THEN [panic |-> TRUE, ret |-> 0, self |-> self]
    ELSE IF self.deadlock_detect
    THEN [panic |-> FALSE, ret |-> -1, self |-> self]
    ELSE LET r == enable_add_threads(self.deadlock_ctl, self.tasks, 0)
         IN  [panic |-> r.panic, ret |-> 0,
              self |-> [self EXCEPT !.deadlock_detect = TRUE, !.deadlock_ctl = r.ctl]]

\* a disable_deadlock_detect that keeps the detector's matrices
disable_deadlock_detect_keeps_ctl(self) ==
    IF ~self.deadlock_detect
    THEN [panic |-> FALSE, ret |-> -1, self |-> self]
    ELSE [panic |-> FALSE, ret |-> 0, self |-> [self EXCEPT !.deadlock_detect = FALSE]]

\* ProcessControlBlockInner::disable_deadlock_detect
disable_deadlock_detect(self) ==
    IF ~self.deadlock_detect
    THEN [panic |-> FALSE, ret |-> -1, self |-> self]
    ELSE [panic |-> FALSE, ret |-> 0,
          self |-> [self EXCEPT !.deadlock_detect = FALSE,
                                !.deadlock_ctl = DeadLockDetectControlBlock_new]]

----------------------------------------------------------------------------
(* TaskManager: a BinaryHeap<PTCB> ordered by stride *)

\* the stride scheduler's BIG_STRIDE (scaled down)
BIG_STRIDE == 12
\* the priority a task is created with
INIT_PRIORITY == 4

\* usize::cmp
usize_cmp(x, y) == IF x < y THEN "Less" ELSE IF x = y THEN "Equal" ELSE "Greater"

\* a comparison of PTCBs in the order of their strides, not reversed
PTCB_partial_cmp_by_stride(t, self, other) ==
    usize_cmp(t[self].stride, t[other].stride)

\* PTCB::partial_cmp (and Ord::cmp): the strides compared in reverse, so that
\* the greatest PTCB is the task with the smallest stride
PTCB_partial_cmp(t, self, other) ==
    usize_cmp(t[other].stride, t[self].stride)

\* PartialOrd::le, which BinaryHeap's sift operations compare with
PTCB_le(t, a, b) == PTCB_partial_cmp(t, a, b) \in {"Less", "Equal"}

\* Vec v with v[i] = x, i counted from 0
SetAt(v, i, x) == [v EXCEPT ![i + 1] = x]

\* BinaryHeap::sift_up with the hole at pos holding elt: parents smaller than
\* elt move down into the hole
RECURSIVE sift_up_hole(_, _, _, _, _)
sift_up_hole(t, data, elt, start, pos) ==
    IF pos > start
    THEN LET parent == (pos - 1) \div 2
         IN  IF PTCB_le(t, elt, At(data, parent))
             THEN SetAt(data, pos, elt)
             ELSE sift_up_hole(t, SetAt(data, pos, At(data, parent)), elt, start, parent)
    ELSE SetAt(data, pos, elt)

\* BinaryHeap::sift_up(start, pos)
sift_up(t, data, start, pos) == sift_up_hole(t, data, At(data, pos), start, pos)

\* the loop of BinaryHeap::sift_down_to_bottom: the hole moves to its greater
\* child until it has fewer than two children, then to an only child
RECURSIVE sift_down_hole(_, _, _, _)
sift_down_hole(t, data, end, pos) ==
    LET child == 2 * pos + 1
    IN  IF end >= 2 /\ child <= end - 2
        THEN LET c == IF PTCB_le(t, At(data, child), At(data, child + 1))
                      THEN child + 1 ELSE child
             IN  sift_down_hole(t, SetAt(data, pos, At(data, c)), end, c)
        ELSE IF child = end - 1
        THEN [data |-> SetAt(data, pos, At(data, child)), pos |-> child]
        ELSE [data |-> data, pos |-> pos]

\* BinaryHeap::sift_down_to_bottom(pos): the element at pos goes to the bottom
\* and is sifted up from there
sift_down_to_bottom(t, data, pos) ==
    LET elt == At(data, pos)
        r == sift_down_hole(t, data, Len(data), pos)
    IN  sift_up_hole(t, r.data, elt, pos, r.pos)

\* BinaryHeap::push
BinaryHeap_push(t, data, item) ==
    sift_up(t, Append(data, item), 0, Len(data))

\* BinaryHeap::pop: [item, data]; the last element replaces the root and is
\* sifted down
BinaryHeap_pop(t, data) ==
    IF data = <<>> THEN [item |-> None, data |-> data]
    ELSE LET last == data[Len(data)]
             rest == SubSeq(data, 1, Len(data) - 1)
         IN  IF rest = <<>> THEN [item |-> Some(last), data |-> rest]
             ELSE [item |-> Some(rest[1]),
                   data |-> sift_down_to_bottom(t, SetAt(rest, 0, last), 0)]

\* TaskManager::new
TaskManager_new == <<>>

\* TaskManager::add
add(t, queue, task) == BinaryHeap_push(t, queue, task)

\* TaskManager::fetch
fetch(t, queue) == BinaryHeap_pop(t, queue)

\* a sys_set_priority that also restarts the caller's stride
sys_set_priority_resets_stride(inner, prio) ==
    IF prio < 2 THEN [ret |-> -1, inner |-> inner]
    ELSE [ret |-> prio, inner |-> [stride |-> 0, priority |-> AsUsize(prio)]]

\* a sys_set_priority that accepts priority 1
sys_set_priority_accepts_one(inner, prio) ==
    IF prio < 1 THEN [ret |-> -1, inner |-> inner]
    ELSE [ret |-> prio, inner |-> [inner EXCEPT !.priority = AsUsize(prio)]]

\* sys_set_priority, on the inner state of the calling task
sys_set_priority(inner, prio) ==
    IF prio < 2 THEN [ret |-> -1, inner |-> inner]
    ELSE [ret |-> prio, inner |-> [inner EXCEPT !.priority = AsUsize(prio)]]

\* the pass of a task: BIG_STRIDE / priority
pass_of(inner) == BIG_STRIDE \div inner.priority

\* the stride update of a re-enqueue: stride += pass, in usize
stride_update(inner) == [inner EXCEPT !.stride = (@ + pass_of(inner)) % UsizeMod]

\* the inner state of a new task
TaskControlBlock_new == [stride |-> 0, priority |-> INIT_PRIORITY]

----------------------------------------------------------------------------
(* Processes: fork and sys_waitpid *)

\* ProcessControlBlockInner::thread_count
thread_count(self) == Len(self.tasks)

\* Vec::swap_remove(idx): the last element takes the place of the removed one
VecSwapRemove(v, idx) ==
    IF idx = Len(v) - 1 THEN SubSeq(v, 1, idx)
    ELSE SubSeq([v EXCEPT ![idx + 1] = v[Len(v)]], 1, Len(v) - 1)

\* Vec::remove(idx), idx counted from 0
VecRemove(v, idx) == SubSeq(v, 1, idx) \o SubSeq(v, idx + 2, Len(v))

\* KernelStack::get_top of the kernel stack allocated for a task
kstack_top(task) == <<"kstack_top", task>>

\* TrapContext::app_init_context: registers zeroed, then sp and kernel_sp set
app_init_context(ustack_top, kstack) ==
    [x10 |-> 0, x11 |-> 0, sp |-> ustack_top, kernel_sp |-> kstack]

\* the pid of the calling process
SelfPid == 0

\* ProcessControlBlock::fork of the process self_pid with children chs and
\* main-thread trap context parent_cx; pid_alloc gives pid and the child's
\* new main thread is task.  The child, not a zombie, gets a copy of the
\* parent's address space (trap context included) and a weak reference to
\* the parent, is pushed onto the parent's children, its trap context's
\* kernel_sp becomes the top of its own kernel stack, and add_task gets its
\* main thread.  On return the child's control block is held by the children
\* list and by the pid-to-process map.
fork(self_pid, chs, parent_cx, pid, task) ==
    LET child == [pid |-> pid, is_zombie |-> FALSE, exit_code |-> 0,
                  strong_count |-> 2, parent |-> Some(self_pid),
                  task |-> task,
                  trap_cx |-> [parent_cx EXCEPT !.kernel_sp = kstack_top(task)]]
    IN  [child |-> child, children |-> Append(chs, child), added |-> <<task>>]

\* sys_fork: fork, x[10] = 0 in the trap context of what fork returned,
\* add_task of what fork returned, and the new pid as the result; added
\* lists the calls of add_task in order.  The handle that fork returned is
\* moved into the ready queue by that add_task, so the queue holds one more
\* strong reference to the child.
sys_fork(self_pid, chs, parent_cx, pid, task) ==
    LET f == fork(self_pid, chs, parent_cx, pid, task)
        new_task == [f.child EXCEPT !.trap_cx.x10 = 0, !.strong_count = @ + 1]
    IN  [ret |-> new_task.pid,
         children |-> [f.children EXCEPT ![Len(f.children)] = new_task],
         added |-> Append(f.added, new_task.task)]

\* the closure of sys_waitpid's any(): child p matches pid
waitpid_matches(pid, p) == pid = -1 \/ AsUsize(pid) = p.pid

\* a find() that takes the first zombie, whether it matches pid or not
waitpid_find_any_zombie(chs, pid) ==
    LET Z == {k \in 0..(Len(chs) - 1) : At(chs, k).is_zombie}
    IN  IF Z = {} THEN None ELSE Some(Min(Z))

\* sys_waitpid's find(): the index of the first zombie child that matches pid
waitpid_find(chs, pid) ==
    LET Z == {k \in 0..(Len(chs) - 1) :
                 At(chs, k).is_zombie /\ waitpid_matches(pid, At(chs, k))}
    IN  IF Z = {} THEN None ELSE Some(Min(Z))

\* sys_waitpid(pid, exit_code_ptr) on the caller's children chs, mem being
\* the i32 that exit_code_ptr points to
sys_waitpid(chs, mem, pid) ==
    LET unchanged == [children |-> chs, mem |-> mem]
    IN  IF ~(\E k \in 0..(Len(chs) - 1) : waitpid_matches(pid, At(chs, k)))
        THEN [panic |-> FALSE, ret |-> -1] @@ unchanged
        ELSE LET pair == waitpid_find(chs, pid)
             IN  IF is_some(pair)
                 THEN LET idx == unwrap(pair)
                          child == At(chs, idx)
                      IN  IF child.strong_count # 1
                          THEN [panic |-> TRUE, ret |-> 0] @@ unchanged
                          ELSE [panic |-> FALSE, ret |-> child.pid,
                                children |-> VecRemove(chs, idx),
                                mem |-> child.exit_code]
                 ELSE [panic |-> FALSE, ret |-> -2] @@ unchanged

\* a child exits: it becomes a zombie with its exit code and leaves the
\* pid-to-process map; the handle that sys_fork put into the ready queue is
\* dropped with the exit when the scheduler had popped it (handle_popped),
\* and stays in the queue otherwise
exit_process(p, exit_code, handle_popped) ==
    [p EXCEPT !.is_zombie = TRUE, !.exit_code = exit_code,
              !.strong_count = @ - 1 - (IF handle_popped THEN 1 ELSE 0)]

----------------------------------------------------------------------------
(* exec: the arguments on the new user stack *)

\* the top of the main thread's user stack in a new address space (scaled
\* down; page-aligned)
USTACK_TOP == 64

\* core::mem::size_of::<usize>()
SIZE_OF_USIZE == 8

\* the user stack of a new address space: zeroed frames
umem_new == [a \in 0..(USTACK_TOP - 1) |-> 0]

\* byte k of the little-endian representation of the usize w
le_byte(w, k) == IF k < 4 THEN (w \div (256 ^ k)) % 256 ELSE 0

\* *translated_refmut(token, p as *mut u8) = c
store_u8(mem, p, c) == [mem EXCEPT ![p] = c]

\* *translated_refmut(token, p as *mut usize) = w
store_usize(mem, p, w) ==
    [a \in DOMAIN mem |->
        IF a >= p /\ a < p + SIZE_OF_USIZE THEN le_byte(w, a - p) ELSE mem[a]]

\* the usize stored at p
load_usize(mem, p) ==
    LET b(k) == mem[p + k]
    IN  b(0) + 256 * b(1) + 256 * 256 * b(2) + 256 * 256 * 256 * (b(3) % 128)

\* the bytes of a string written upwards from p
RECURSIVE store_bytes(_, _, _)
store_bytes(mem, p, bytes) ==
    IF bytes = <<>> THEN mem
    ELSE store_bytes(store_u8(mem, p, Head(bytes)), p + 1, Tail(bytes))

\* a string that takes its length on the stack, without a terminator's byte
exec_string_size_no_nul(arg) == Len(arg)

\* the room a string takes on the stack: args[i].len() + 1
exec_string_size(arg) == Len(arg) + 1

\* exec's loop over the arguments from index i on: each string goes below the
\* previous one, its address into argv[i], a 0 byte after it
RECURSIVE exec_push_strings(_, _, _, _, _)
exec_push_strings(mem, user_sp, argv_base, args, i) ==
    IF i >= Len(args) THEN [mem |-> mem, user_sp |-> user_sp]
    ELSE LET arg == At(args, i)
             sp == user_sp - exec_string_size(arg)
             m1 == store_usize(mem, argv_base + i * SIZE_OF_USIZE, sp)
             m2 == store_bytes(m1, sp, arg)
             m3 == store_u8(m2, sp + Len(arg), 0)
         IN  exec_push_strings(m3, sp, argv_base, args, i + 1)

\* ProcessControlBlock::exec on the process inner state self, whose main
\* thread has the kernel stack top kstack: [panic, mem, trap_cx]
exec(self, kstack, args) ==
    IF thread_count(self) # 1
    THEN [panic |-> TRUE, mem |-> umem_new, trap_cx |-> app_init_context(0, kstack)]
    ELSE LET argv_base == USTACK_TOP - (Len(args) + 1) * SIZE_OF_USIZE
             m0 == store_usize(umem_new, argv_base + Len(args) * SIZE_OF_USIZE, 0)
             r == exec_push_strings(m0, argv_base, argv_base, args, 0)
             user_sp == r.user_sp - (r.user_sp % SIZE_OF_USIZE)
         IN  [panic |-> FALSE, mem |-> r.mem,
              trap_cx |-> [app_init_context(user_sp, kstack)
                             EXCEPT !.x10 = Len(args), !.x11 = argv_base]]

----------------------------------------------------------------------------
(* sys_mmap *)

\* the page size sys_mmap aligns to
PAGE_SIZE == 4096

\* x & 0b111 and x | 0b111 on a usize
and_0b111(x) == x % 8
or_0b111(x) == (x \div 8) * 8 + 7

\* VirtAddr::floor and VirtAddr::ceil: the page of an address, rounded down
\* and up
va_floor(va) == va \div PAGE_SIZE
va_ceil(va) == (va + PAGE_SIZE - 1) \div PAGE_SIZE

\* MemorySet::try_insert_framed_area: -1 when a page of the range is mapped
\* already, otherwise the pages of the range are mapped with perm
try_insert_framed_area(memory_set, start_va, end_va, perm) ==
    LET range == va_floor(start_va)..(va_ceil(end_va) - 1)
    IN  IF range \cap DOMAIN memory_set # {}
        THEN [ret |-> -1, memory_set |-> memory_set]
        ELSE [ret |-> 0,
              memory_set |-> [vpn \in DOMAIN memory_set \cup range |->
                                IF vpn \in range THEN perm ELSE memory_set[vpn]]]

\* the MapPermission sys_mmap builds from port
mmap_perm(port) ==
    {"U"} \cup (IF and_0b111(port) % 2 = 1 THEN {"R"} ELSE {})
          \cup (IF (and_0b111(port) \div 2) % 2 = 1 THEN {"W"} ELSE {})
          \cup (IF (and_0b111(port) \div 4) % 2 = 1 THEN {"X"} ELSE {})

\* sys_mmap(start, len, port) on the address space memory_set
sys_mmap(memory_set, start, len, port) ==
    IF start % PAGE_SIZE # 0 THEN [ret |-> -1, memory_set |-> memory_set]
    ELSE IF len = 0 THEN [ret |-> 0, memory_set |-> memory_set]
    ELSE IF or_0b111(port) # 7 \/ and_0b111(port) = 0
    THEN [ret |-> -1, memory_set |-> memory_set]
    ELSE try_insert_framed_area(memory_set, start, start + len, mmap_perm(port))

----------------------------------------------------------------------------
(* copy_to_buffers *)

\* a copy that does not advance in src after a slice is filled
copy_next_beg_stuck(beg, buf_len) == beg

\* beg += buf.len()
copy_next_beg(beg, buf_len) == beg + buf_len

\* copy_to_buffers' loop over the slices from index k on, beg bytes of src
\* being copied already: the slices as the loop leaves them
RECURSIVE copy_loop(_, _, _, _)
copy_loop(src, dest, k, beg) ==
    IF k >= Len(dest) THEN dest
    ELSE LET buf == At(dest, k)
         IN  IF Len(buf) < Len(src) - beg
             THEN copy_loop(src,
                            SetAt(dest, k, SubSeq(src, beg + 1, beg + Len(buf))),
                            k + 1, copy_next_beg(beg, Len(buf)))
             ELSE SetAt(dest, k,
                        SubSeq(src, beg + 1, Len(src))
                          \o SubSeq(buf, Len(src) - beg + 1, Len(buf)))

\* copy_to_buffers(src, dest)
copy_to_buffers(src, dest) == copy_loop(src, dest, 0, 0)

\* a byte of the destination before the copy, different from src's bytes
OLD_BYTE == 255

----------------------------------------------------------------------------
(* easy-fs: the operations of an Inode handle on the root directory *)

\* a name is the sequence of its bytes; DirEntry::name reads the bytes up to
\* the first 0, so the name of an all-zero entry is the empty name
EmptyName == <<>>

\* DirEntry::empty and DirEntry::new
DirEntry_empty == [name |-> EmptyName, inode_id |-> 0]
DirEntry_new(name, inode_id) == [name |-> name, inode_id |-> inode_id]

\* DiskInode::initialize
DiskInode_initialize(type) == [type |-> type, nlink |-> 1, data |-> <<>>]

\* DiskInode::is_dir
is_dir(disk_inode) == disk_inode.type = "Directory"

\* the disk inode of id on disk d, and d with that inode replaced
inode_at(d, id) == At(d, id)
with_inode(d, id, disk_inode) == SetAt(d, id, disk_inode)

\* EasyFileSystem::create: a disk with the root directory only
EasyFileSystem_create == <<DiskInode_initialize("Directory")>>

\* a lookup that looks at the first entry only
find_inode_id_first_only(name, disk_inode) ==
    IF ~is_dir(disk_inode) THEN [panic |-> TRUE, ret |-> None]
    ELSE IF disk_inode.data # <<>> /\ disk_inode.data[1].name = name
    THEN [panic |-> FALSE, ret |-> Some(disk_inode.data[1].inode_id)]
    ELSE [panic |-> FALSE, ret |-> None]

\* Inode::find_inode_id: the inode_id of the first entry whose name is name
find_inode_id(name, disk_inode) ==
    IF ~is_dir(disk_inode) THEN [panic |-> TRUE, ret |-> None]
    ELSE LET hits == {i \in 1..Len(disk_inode.data) : disk_inode.data[i].name = name}
         IN  [panic |-> FALSE,
              ret |-> IF hits = {} THEN None
                      ELSE Some(disk_inode.data[Min(hits)].inode_id)]

\* Inode::find on the root: a handle is the id of its inode
find(d, name) == find_inode_id(name, inode_at(d, 0))

\* EasyFileSystem::alloc_inode: the first inode never allocated
alloc_inode(d) == Len(d)

\* a link that leaves the target's nlink as it was
link_nlink_same(nlink) == nlink

\* the nlink of the target of a new link (inode.nlink += 1)
link_nlink(nlink) == nlink + 1

\* Inode::create_child(name, inode) on the root: [panic, ret, disk]
create_child(d, name, inode) ==
    LET found == find_inode_id(name, inode_at(d, 0))
    IN  IF found.panic THEN [panic |-> TRUE, ret |-> None, disk |-> d]
        ELSE IF is_some(found.ret) THEN [panic |-> FALSE, ret |-> None, disk |-> d]
        ELSE LET is_link == ~is_none(inode)
                 inode_id == IF is_none(inode) THEN alloc_inode(d) ELSE unwrap(inode)
                 d0 == IF is_none(inode) THEN Append(d, DiskInode_initialize("File")) ELSE d
                 d1 == IF is_link
                       THEN with_inode(d0, inode_id,
                                [inode_at(d0, inode_id) EXCEPT !.nlink = link_nlink(@)])
                       ELSE with_inode(d0, inode_id, DiskInode_initialize("File"))
                 root == inode_at(d1, 0)
                 d2 == with_inode(d1, 0,
                          [root EXCEPT !.data = Append(@, DirEntry_new(name, inode_id))])
             IN  [panic |-> FALSE, ret |-> Some(inode_id), disk |-> d2]

\* Inode::create and Inode::create_link_id on the root
create(d, name) == create_child(d, name, None)
create_link_id(d, name, from_inode_id) == create_child(d, name, Some(from_inode_id))

\* Inode::clear of the inode id: its data blocks are freed, its size is 0
clear(d, id) == with_inode(d, id, [inode_at(d, id) EXCEPT !.data = <<>>])

\* Inode::ls on the root: the name of every entry
ls(d) == [i \in 1..Len(inode_at(d, 0).data) |-> inode_at(d, 0).data[i].name]

\* Inode::destroy_link(name) on the root: [panic, ret, disk]; the disk of a
\* panicking call is the disk as the last block_cache_sync_all wrote it
destroy_link(d, name) ==
    LET found == find(d, name)
    IN  IF found.panic THEN [panic |-> TRUE, ret |-> 0, disk |-> d]
        ELSE IF is_none(found.ret) THEN [panic |-> FALSE, ret |-> -1, disk |-> d]
        ELSE LET id == unwrap(found.ret)
                 nlink == WrappingSub(inode_at(d, id).nlink, 1)
                 d1 == with_inode(d, id, [inode_at(d, id) EXCEPT !.nlink = nlink])
                 d2 == IF nlink = 0 THEN clear(d1, id) ELSE d1
                 root == inode_at(d2, 0)
                 hits == {i \in 1..Len(root.data) : root.data[i].name = name}
             IN  IF hits = {}
                 THEN [panic |-> TRUE, ret |-> 0, disk |-> d2]
                 ELSE [panic |-> FALSE, ret |-> 0,
                       disk |-> with_inode(d2, 0,
                                  [root EXCEPT !.data[Min(hits)] = DirEntry_empty])]

\* Inode::write_at(0, buf) on the inode id: the file grows as needed
write_at(d, id, buf) ==
    LET old == inode_at(d, id).data
    IN  with_inode(d, id,
            [inode_at(d, id) EXCEPT !.data = buf \o SubSeq(old, Len(buf) + 1, Len(old))])

----------------------------------------------------------------------------
(* Initial states *)

\* the thread tables a process may have: slot 0 holds the main thread, the
\* other slots hold a thread or are empty
TaskTables ==
    {t \in UNION {[1..n -> {Some("tcb"), None}] : n \in 1..(MaxTid + 1)} : is_some(t[1])}

\* the processes are 0..MaxProcs; the init process is the first one created
Pids == 0..MaxProcs
INITPROC == Min(Pids)

\* the process tree after boot: the init process alone, without children, held
\* by INITPROC and by the pid-to-process map
ProcessTree_new ==
    [p \in Pids |->
        IF p = INITPROC
        THEN Some([pid |-> p, is_zombie |-> FALSE, exit_code |-> 0, strong_count |-> 2,
                   parent |-> None, children |-> <<>>])
        ELSE None]

InitCommon ==
    /\ call = [op |-> "none"]
    /\ fs_lock = 0
    /\ stacks = [c \in 1..MaxChains |-> <<>>]
    /\ deadlocked = {}
    /\ procs = ProcessTree_new
    /\ borrowed = <<>>
    /\ todo = <<>>
    /\ logical = <<>>
    /\ ledger = [owed |-> [c \in Tids \X ResIds |-> 0],
                 held |-> [c \in Tids \X ResIds |-> 0],
                 given |-> [j \in ResIds |-> None]]
    /\ panicked = FALSE
    /\ ncalls = 0

\* an empty detector
DLDInit == dld = DLDCBInner_new

\* a process with any thread table, no mutex and no semaphore
PCBInit == \E t \in TaskTables : pcb = ProcessControlBlockInner_new(t)

\* the process as ProcessControlBlock::new leaves it
PCBIdle == pcb = ProcessControlBlockInner_new(<<Some("tcb")>>)

\* no task yet, an empty ready queue and an idle processor
SchedInit ==
    /\ tcb = <<>>
    /\ ready_queue = TaskManager_new
    /\ current = None
    /\ enq_order = <<>>
    /\ passes = <<>>
    /\ dispatched = {}

\* a process without children
ProcInit ==
    /\ children = <<>>
    /\ user_exit_code = 0
    /\ trap_cx = app_init_context(0, kstack_top(0))

\* no page mapped by sys_mmap yet
MmapInit == areas = <<>>

\* a file system with an empty root directory
FsInit == disk = EasyFileSystem_create

\* nothing to copy
CopyInit == copy_src = <<>> /\ copy_dest = <<>>

\* the user stack as from_elf leaves it
ExecInit == umem = umem_new /\ exec_args = <<>>

\* a process without children that enters the kernel with any value in a0
ProcInitAnyA0 ==
    /\ children = <<>>
    /\ user_exit_code = 0
    /\ \E a \in 0..1 : trap_cx = [app_init_context(0, kstack_top(0)) EXCEPT !.x10 = a]

\* the variables of the scheduler and of the process tree
schedVars == <<tcb, ready_queue, current, enq_order, passes, dispatched>>
procVars == <<children, user_exit_code, trap_cx>>
execVars == <<umem, exec_args>>
mmapVars == <<areas>>
copyVars == <<copy_src, copy_dest>>
fsVars == <<disk>>
ledgerVars == <<ledger>>
lockVars == <<fs_lock, stacks, deadlocked>>
borrowVars == <<procs, borrowed, todo>>
wrapVars == <<logical>>

\* the kernel runs and the run may make another call, up to max calls
RunningUpTo(max) ==
    /\ ~panicked
    /\ ncalls < max
    /\ ncalls' = ncalls + 1

Running == RunningUpTo(MaxCalls)

----------------------------------------------------------------------------
(* The detector on its own: any sequence of calls of DLDCBInner's methods *)

\* the variables the detector's calls leave alone
othersDLD == <<pcb, schedVars, procVars, execVars, mmapVars, copyVars, fsVars,
               ledgerVars, lockVars, borrowVars, wrapVars>>

\* a call of self.add_thread(id)
DLD_add_thread(id) ==
    LET r == add_thread(dld, id)
    IN  /\ Running
        /\ dld' = IF r.panic THEN dld ELSE r.self
        /\ panicked' = r.panic
        /\ call' = [op |-> "add_thread", tid |-> id]
        /\ UNCHANGED othersDLD

\* a call of self.add_res(res_type, res_avail)
DLD_add_res(res_type, res_avail) ==
    LET r == add_res(dld, res_type, res_avail)
    IN  /\ Running
        /\ dld' = IF r.panic THEN dld ELSE r.self
        /\ panicked' = r.panic
        /\ call' = [op |-> "add_res", res |-> res_type, units |-> res_avail]
        /\ UNCHANGED othersDLD

\* a call of self.get_resource(1, thread_id, res_type)
DLD_get_resource(thread_id, res_type) ==
    LET r == get_resource(dld, 1, thread_id, res_type)
    IN  /\ Running
        /\ dld' = IF r.panic THEN dld ELSE r.self
        /\ panicked' = r.panic
        /\ call' = [op |-> "get_resource", tid |-> thread_id, res |-> res_type,
                    ret |-> r.ret]
        /\ UNCHANGED othersDLD

\* a call of self.release_resource(1, thread_id, res_type) by a thread that
\* the detector records as holding a unit of res_type
DLD_release_resource(thread_id, res_type) ==
    LET r == release_resource(dld, 1, thread_id, res_type)
    IN  /\ Running
        /\ ~r.panic /\ ~r.underflow
        /\ dld' = r.self
        /\ panicked' = FALSE
        /\ call' = [op |-> "release_resource", tid |-> thread_id, res |-> res_type]
        /\ UNCHANGED othersDLD

NextDLD ==
    \/ \E id \in Tids : DLD_add_thread(id)
    \/ \E j \in ResIds, n \in 0..MaxUnits : DLD_add_res(j, n)
    \/ \E i \in Tids, j \in ResIds : DLD_get_resource(i, j)
    \/ \E i \in Tids, j \in ResIds : DLD_release_resource(i, j)

InitDLD == InitCommon /\ DLDInit /\ PCBIdle /\ SchedInit /\ ProcInit /\ ExecInit /\ MmapInit /\ CopyInit /\ FsInit

SpecDLD == InitDLD /\ [][NextDLD]_vars

----------------------------------------------------------------------------
(* The detector behind mutexes and semaphores: a thread requests a unit    *)
(* with get_resource before it acquires and calls release_resource when it *)
(* releases what an earlier request of its own, answered 0, let it acquire *)

othersReq == <<pcb, schedVars, procVars, execVars, mmapVars, copyVars, fsVars,
               lockVars, borrowVars, wrapVars>>

\* the units of the mutex or semaphore j that no thread has acquired
RECURSIVE HeldUpTo(_, _)
HeldUpTo(t, j) == IF t < 0 THEN 0 ELSE ledger.held[<<t, j>>] + HeldUpTo(t - 1, j)
FreeUnits(j) == unwrap(ledger.given[j]) - HeldUpTo(MaxTid, j)

\* the threads that wait for a unit of j: their request returned 0 and they
\* have not acquired yet
Waiters(j) == {t \in Tids : ledger.owed[<<t, j>>] > ledger.held[<<t, j>>]}

\* a thread that waits for a unit is blocked and makes no call
Blocked(t) == \E j \in ResIds : t \in Waiters(j)

\* the process creates thread id
Req_add_thread(id) ==
    LET r == add_thread(dld, id)
    IN  /\ Running
        /\ dld' = IF r.panic THEN dld ELSE r.self
        /\ panicked' = r.panic
        /\ call' = [op |-> "add_thread", tid |-> id]
        /\ UNCHANGED <<othersReq, ledger>>

\* the process creates the mutex or semaphore res_type with res_avail units
Req_add_res(res_type, res_avail) ==
    LET r == add_res(dld, res_type, res_avail)
    IN  /\ Running
        /\ dld' = IF r.panic THEN dld ELSE r.self
        /\ panicked' = r.panic
        /\ call' = [op |-> "add_res", res |-> res_type, units |-> res_avail]
        /\ ledger' = IF r.panic THEN ledger
                     ELSE [ledger EXCEPT !.given[res_type] = Some(res_avail)]
        /\ UNCHANGED othersReq

\* thread_id is about to acquire res_type: get_resource(1, thread_id, res_type)
Req_get_resource(thread_id, res_type) ==
    LET r == get_resource(dld, 1, thread_id, res_type)
    IN  /\ Running
        /\ ~Blocked(thread_id)
        /\ dld' = IF r.panic THEN dld ELSE r.self
        /\ panicked' = r.panic
        /\ call' = [op |-> "get_resource", tid |-> thread_id, res |-> res_type,
                    ret |-> r.ret]
        /\ ledger' = IF ~r.panic /\ r.ret = 0
                     THEN [ledger EXCEPT
                             !.owed[<<thread_id, res_type>>] = @ + 1,
                             !.held[<<thread_id, res_type>>] =
                                 IF FreeUnits(res_type) >= 1 THEN @ + 1 ELSE @]
                     ELSE ledger
        /\ UNCHANGED othersReq

\* thread_id, which has acquired a unit of res_type, releases it:
\* release_resource(1, thread_id, res_type), then the unit goes to a thread
\* that waits for it, if there is one.  When alloc is 0 the subtraction
\* panics in a kernel built with overflow checks and wraps in one built
\* without.
Req_release_resource(thread_id, res_type) ==
    LET r == release_resource(dld, 1, thread_id, res_type)
    IN  /\ Running
        /\ ~Blocked(thread_id)
        /\ ledger.held[<<thread_id, res_type>>] >= 1
        /\ \E overflow_checks \in BOOLEAN :
              LET panic == r.panic \/ (r.underflow /\ overflow_checks)
              IN  /\ dld' = IF panic THEN dld ELSE r.self
                  /\ panicked' = panic
        /\ call' = [op |-> "release_resource", tid |-> thread_id, res |-> res_type,
                    alloc |-> IF r.panic THEN 0
                              ELSE unwrap(At(unwrap(At(dld.alloc, thread_id)), res_type))]
        /\ LET released == [ledger EXCEPT !.owed[<<thread_id, res_type>>] = @ - 1,
                                          !.held[<<thread_id, res_type>>] = @ - 1]
           IN  IF Waiters(res_type) = {} THEN ledger' = released
               ELSE \E w \in Waiters(res_type) :
                       ledger' = [released EXCEPT !.held[<<w, res_type>>] = @ + 1]
        /\ UNCHANGED othersReq

NextReq ==
    \/ \E id \in Tids : Req_add_thread(id)
    \/ \E j \in ResIds, n \in 0..MaxUnits : Req_add_res(j, n)
    \/ \E i \in Tids, j \in ResIds : Req_get_resource(i, j)
    \/ \E i \in Tids, j \in ResIds : Req_release_resource(i, j)

InitReq == InitCommon /\ DLDInit /\ PCBIdle /\ SchedInit /\ ProcInit /\ ExecInit
           /\ MmapInit /\ CopyInit /\ FsInit

SpecReq == InitReq /\ [][NextReq]_vars

----------------------------------------------------------------------------
(* The deadlock detection of one process *)

\* the variables the process's calls leave alone
othersPCB == <<dld, schedVars, procVars, execVars, mmapVars, copyVars, fsVars,
               ledgerVars, lockVars, borrowVars, wrapVars>>

\* the threads of the process
Threads == {i \in 0..(Len(pcb.tasks) - 1) : is_some(At(pcb.tasks, i))}

\* the outcome r of a call on the process's inner state
PCBOutcome(r) ==
    /\ pcb' = IF r.panic THEN pcb ELSE r.self
    /\ panicked' = r.panic
    /\ UNCHANGED othersPCB

\* the outcome r of a call on the process's detector
CtlOutcome(r) ==
    /\ pcb' = IF r.panic THEN pcb ELSE [pcb EXCEPT !.deadlock_ctl = r.ctl]
    /\ panicked' = r.panic
    /\ UNCHANGED othersPCB

\* a thread of the process enables deadlock detection
PCB_enable_deadlock_detect ==
    LET r == enable_deadlock_detect(pcb)
    IN  /\ Running
        /\ PCBOutcome(r)
        /\ call' = [op |-> "enable_deadlock_detect", ret |-> r.ret]

\* a thread of the process disables deadlock detection
PCB_disable_deadlock_detect ==
    LET r == disable_deadlock_detect(pcb)
    IN  /\ Running
        /\ PCBOutcome(r)
        /\ call' = [op |-> "disable_deadlock_detect", ret |-> r.ret]

\* a mutex is created: it takes the next slot of mutex_list and, with
\* detection enabled, is registered with the detector
PCB_mutex_create ==
    LET id == Len(pcb.mutex_list)
        r == IF pcb.deadlock_detect THEN add_mutex(pcb.deadlock_ctl, id)
             ELSE [panic |-> FALSE, ctl |-> pcb.deadlock_ctl]
    IN  /\ Running
        /\ id <= MaxRes
        /\ pcb' = IF r.panic THEN pcb
                  ELSE [pcb EXCEPT !.mutex_list = Append(@, Some("mutex")),
                                   !.deadlock_ctl = r.ctl]
        /\ panicked' = r.panic
        /\ call' = [op |-> "mutex_create", ret |-> id]
        /\ UNCHANGED othersPCB

\* a semaphore of res_count units is created: it takes the next slot of
\* semaphore_list and, with detection enabled, is registered with the detector
PCB_semaphore_create(res_count) ==
    LET id == Len(pcb.semaphore_list)
        r == IF pcb.deadlock_detect THEN add_semaphore(pcb.deadlock_ctl, id, res_count)
             ELSE [panic |-> FALSE, ctl |-> pcb.deadlock_ctl]
    IN  /\ Running
        /\ id <= MaxRes
        /\ pcb' = IF r.panic THEN pcb
                  ELSE [pcb EXCEPT !.semaphore_list = Append(@, Some("semaphore")),
                                   !.deadlock_ctl = r.ctl]
        /\ panicked' = r.panic
        /\ call' = [op |-> "semaphore_create", ret |-> id, units |-> res_count]
        /\ UNCHANGED othersPCB

\* with detection enabled, thread tid asks the detector for mutex mutex_id
PCB_get_mutex_resource(tid, mutex_id) ==
    LET r == get_mutex_resource(pcb.deadlock_ctl, tid, mutex_id)
    IN  /\ Running
        /\ pcb.deadlock_detect
        /\ tid \in Threads
        /\ mutex_id < Len(pcb.mutex_list)
        /\ CtlOutcome(r)
        /\ call' = [op |-> "get_mutex_resource", tid |-> tid, res |-> mutex_id,
                    ret |-> r.ret]

\* with detection enabled, thread tid gives back mutex mutex_id, which the
\* detector records as allocated to it
PCB_release_mutex_resource(tid, mutex_id) ==
    LET r == release_mutex_resource(pcb.deadlock_ctl, tid, mutex_id)
    IN  /\ Running
        /\ pcb.deadlock_detect
        /\ tid \in Threads
        /\ mutex_id < Len(pcb.mutex_list)
        /\ ~r.panic /\ ~r.underflow
        /\ CtlOutcome(r)
        /\ call' = [op |-> "release_mutex_resource", tid |-> tid, res |-> mutex_id]

NextPCB ==
    \/ PCB_enable_deadlock_detect
    \/ PCB_disable_deadlock_detect
    \/ PCB_mutex_create
    \/ \E n \in 0..MaxUnits : PCB_semaphore_create(n)
    \/ \E i \in Tids, j \in ResIds : PCB_get_mutex_resource(i, j)
    \/ \E i \in Tids, j \in ResIds : PCB_release_mutex_resource(i, j)

InitPCB == InitCommon /\ DLDInit /\ PCBInit /\ SchedInit /\ ProcInit /\ ExecInit /\ MmapInit /\ CopyInit /\ FsInit

SpecPCB == InitPCB /\ [][NextPCB]_vars

----------------------------------------------------------------------------
(* The stride scheduler *)

\* the variables the scheduler's steps leave alone
othersSched == <<dld, pcb, procVars, execVars, mmapVars, copyVars, fsVars,
                 ledgerVars, lockVars, borrowVars, wrapVars,
                 panicked>>

\* the kernel runs and the scheduler may make another call
SchedRunning == RunningUpTo(MaxSchedCalls)

\* the tasks created so far
Tasks == 1..Len(tcb)

\* sequence q without its first occurrence of x
RECURSIVE RemoveFirst(_, _)
RemoveFirst(q, x) ==
    IF q = <<>> THEN q
    ELSE IF Head(q) = x THEN Tail(q)
    ELSE <<Head(q)>> \o RemoveFirst(Tail(q), x)

\* the history of stride changes after a step that leaves the tasks as t1 and
\* dispatches the tasks in reset
PassesAfter(t1, reset) ==
    [u \in 1..Len(t1) |->
        IF u \in reset THEN 0
        ELSE IF u > Len(tcb) THEN 0
        ELSE IF t1[u].stride # tcb[u].stride THEN passes[u] + 1
        ELSE passes[u]]

\* a new task is created and add_task puts it into the ready queue
Sched_add_task ==
    LET t == Len(tcb) + 1
        t1 == Append(tcb, TaskControlBlock_new)
    IN  /\ SchedRunning
        /\ Len(tcb) < MaxTasks
        /\ tcb' = t1
        /\ ready_queue' = add(t1, ready_queue, t)
        /\ enq_order' = Append(enq_order, t)
        /\ passes' = PassesAfter(t1, {})
        /\ call' = [op |-> "add", task |-> t]
        /\ UNCHANGED <<current, dispatched, othersSched>>

\* the idle processor calls fetch_task and runs the task it gets, if any
Sched_fetch_task ==
    LET r == fetch(tcb, ready_queue)
        got == IF is_some(r.item) THEN {unwrap(r.item)} ELSE {}
    IN  /\ SchedRunning
        /\ is_none(current)
        /\ ready_queue' = r.data
        /\ current' = r.item
        /\ enq_order' = IF is_some(r.item) THEN RemoveFirst(enq_order, unwrap(r.item))
                        ELSE enq_order
        /\ passes' = PassesAfter(tcb, got)
        /\ dispatched' = dispatched \cup got
        /\ call' = [op |-> "fetch", ret |-> r.item]
        /\ UNCHANGED <<tcb, othersSched>>

\* suspend_current_and_run_next, after a yield or a timer tick: the running
\* task's stride advances by its pass and add_task re-enqueues it
Sched_suspend_current_and_run_next ==
    /\ SchedRunning
    /\ is_some(current)
    /\ LET t == unwrap(current)
           t1 == [tcb EXCEPT ![t] = stride_update(@)]
       IN  /\ tcb' = t1
           /\ ready_queue' = add(t1, ready_queue, t)
           /\ enq_order' = Append(enq_order, t)
           /\ passes' = PassesAfter(t1, {})
           /\ call' = [op |-> "suspend", task |-> t]
    /\ current' = None
    /\ UNCHANGED <<dispatched, othersSched>>

\* exit_current_and_run_next: the running task leaves the processor for good
Sched_exit_current_and_run_next ==
    /\ SchedRunning
    /\ is_some(current)
    /\ current' = None
    /\ passes' = PassesAfter(tcb, {})
    /\ call' = [op |-> "exit", task |-> unwrap(current)]
    /\ UNCHANGED <<tcb, ready_queue, enq_order, dispatched, othersSched>>

\* the running task calls sys_set_priority(prio)
Sched_sys_set_priority(prio) ==
    /\ SchedRunning
    /\ is_some(current)
    /\ LET t == unwrap(current)
           r == sys_set_priority(tcb[t], prio)
           t1 == [tcb EXCEPT ![t] = r.inner]
       IN  /\ tcb' = t1
           /\ passes' = PassesAfter(t1, {})
           /\ call' = [op |-> "sys_set_priority", task |-> t, prio |-> prio,
                       ret |-> r.ret]
    /\ UNCHANGED <<ready_queue, current, enq_order, dispatched, othersSched>>

NextSched ==
    \/ Sched_add_task
    \/ Sched_fetch_task
    \/ Sched_suspend_current_and_run_next
    \/ Sched_exit_current_and_run_next
    \/ \E prio \in (-1)..MaxPrio : Sched_sys_set_priority(prio)

InitSched == InitCommon /\ DLDInit /\ PCBIdle /\ SchedInit /\ ProcInit /\ ExecInit /\ MmapInit /\ CopyInit /\ FsInit

SpecSched == InitSched /\ [][NextSched]_vars

----------------------------------------------------------------------------
(* One process, its children and sys_waitpid *)

\* the variables the process tree's steps leave alone
othersProc == <<dld, pcb, execVars, mmapVars, copyVars, fsVars, ledgerVars,
                lockVars, borrowVars, wrapVars>>

\* the kernel runs and the process or a child may make another call
ProcRunning == RunningUpTo(MaxProcCalls)

\* the pids pid_alloc may hand out: those no live process holds
FreePids == (1..MaxChildren) \ {children[k].pid : k \in 1..Len(children)}

\* add_task of each task of seq in turn
RECURSIVE add_all(_, _, _)
add_all(t, queue, seq) ==
    IF seq = <<>> THEN queue
    ELSE add_all(t, add(t, queue, Head(seq)), Tail(seq))

\* the process calls sys_fork and the child gets pid
Proc_sys_fork(pid) ==
    LET t == Len(tcb) + 1
        t1 == Append(tcb, TaskControlBlock_new)
        r == sys_fork(SelfPid, children, trap_cx, pid, t)
    IN  /\ ProcRunning
        /\ pid \in FreePids
        /\ IF thread_count(pcb) # 1
           THEN /\ panicked' = TRUE
                /\ call' = [op |-> "sys_fork"]
                /\ UNCHANGED <<children, tcb, ready_queue, enq_order, passes>>
           ELSE /\ panicked' = FALSE
                /\ children' = r.children
                /\ tcb' = t1
                /\ ready_queue' = add_all(t1, ready_queue, r.added)
                /\ enq_order' = enq_order \o r.added
                /\ passes' = PassesAfter(t1, {})
                /\ call' = [op |-> "sys_fork", ret |-> r.ret, task |-> t]
        /\ UNCHANGED <<user_exit_code, trap_cx, current, dispatched, othersProc>>

\* the k-th child, dispatched at some time before, exits with exit_code; the
\* ready queue of this specification records the add_task calls of sys_fork,
\* and whether the entry that holds the child's handle had been popped by
\* then is left open
Proc_child_exit(k, exit_code) ==
    /\ ProcRunning
    /\ k \in 1..Len(children)
    /\ ~children[k].is_zombie
    /\ \E handle_popped \in BOOLEAN :
          children' = [children EXCEPT ![k] = exit_process(@, exit_code, handle_popped)]
    /\ call' = [op |-> "exit", pid |-> children[k].pid]
    /\ UNCHANGED <<user_exit_code, trap_cx, panicked, schedVars, othersProc>>

\* the process calls sys_waitpid(pid, exit_code_ptr)
Proc_sys_waitpid(pid) ==
    LET r == sys_waitpid(children, user_exit_code, pid)
    IN  /\ ProcRunning
        /\ panicked' = r.panic
        /\ children' = r.children
        /\ user_exit_code' = r.mem
        /\ call' = [op |-> "sys_waitpid", pid |-> pid, ret |-> r.ret]
        /\ UNCHANGED <<trap_cx, schedVars, othersProc>>

NextProc ==
    \/ \E pid \in 1..MaxChildren : Proc_sys_fork(pid)
    \/ \E k \in 1..MaxChildren, c \in 0..MaxExit : Proc_child_exit(k, c)
    \/ \E pid \in (-2)..(MaxChildren + 1) : Proc_sys_waitpid(pid)

InitProc == InitCommon /\ DLDInit /\ PCBIdle /\ SchedInit /\ ProcInitAnyA0 /\ ExecInit /\ MmapInit /\ CopyInit /\ FsInit

SpecProc == InitProc /\ [][NextProc]_vars

----------------------------------------------------------------------------
(* exec of a process *)

\* the variables exec leaves alone
othersExec == <<dld, pcb, schedVars, children, user_exit_code, exec_args,
                mmapVars, copyVars, fsVars, ledgerVars, lockVars, borrowVars, wrapVars>>

\* the argument strings and the argument lists exec is called with
ArgStrings == UNION {[1..n -> 0..MaxByte] : n \in 0..MaxArgLen}
ArgLists == UNION {[1..n -> ArgStrings] : n \in 0..MaxArgs}

\* the user stack as from_elf leaves it, and any arguments for exec
ExecInitAnyArgs == umem = umem_new /\ exec_args \in ArgLists

\* the process calls exec(elf_data, exec_args), once
Exec_exec ==
    LET r == exec(pcb, trap_cx.kernel_sp, exec_args)
    IN  /\ Running
        /\ call.op = "none"
        /\ panicked' = r.panic
        /\ umem' = IF r.panic THEN umem ELSE r.mem
        /\ trap_cx' = IF r.panic THEN trap_cx ELSE r.trap_cx
        /\ call' = [op |-> "exec", args |-> exec_args]
        /\ UNCHANGED othersExec

NextExec == Exec_exec

InitExec == InitCommon /\ DLDInit /\ PCBInit /\ SchedInit /\ ProcInit /\ ExecInitAnyArgs
            /\ MmapInit /\ CopyInit /\ FsInit

SpecExec == InitExec /\ [][NextExec]_vars

----------------------------------------------------------------------------
(* sys_mmap of a process *)

\* the variables sys_mmap leaves alone
othersMmap == <<dld, pcb, schedVars, procVars, execVars, copyVars, fsVars,
                ledgerVars, lockVars, borrowVars, wrapVars,
                panicked>>

\* the start addresses and the lengths sys_mmap is called with
MmapStarts == {pg * PAGE_SIZE + off : pg \in 0..MaxPage, off \in 0..1}
MmapLens == {0, 1} \cup {k * PAGE_SIZE + d : k \in 1..MaxLenPages, d \in 0..1}

\* the process calls sys_mmap(start, len, port)
Mmap_sys_mmap(start, len, port) ==
    LET r == sys_mmap(areas, start, len, port)
    IN  /\ RunningUpTo(MaxMmapCalls)
        /\ areas' = r.memory_set
        /\ call' = [op |-> "sys_mmap", start |-> start, len |-> len,
                    port |-> port, ret |-> r.ret]
        /\ UNCHANGED othersMmap

NextMmap ==
    \E start \in MmapStarts, len \in MmapLens, port \in 0..MaxPort :
        Mmap_sys_mmap(start, len, port)

InitMmap == InitCommon /\ DLDInit /\ PCBIdle /\ SchedInit /\ ProcInit /\ ExecInit /\ MmapInit /\ CopyInit /\ FsInit

SpecMmap == InitMmap /\ [][NextMmap]_vars

----------------------------------------------------------------------------
(* copy_to_buffers on any source and any split of the destination *)

\* the variables copy_to_buffers leaves alone
othersCopy == <<dld, pcb, schedVars, procVars, execVars, mmapVars, copy_src,
                fsVars, ledgerVars, lockVars, borrowVars, wrapVars, panicked>>

\* the sources, and the destinations as Vecs of slices of old bytes
CopySources == UNION {[1..n -> 0..MaxByte] : n \in 0..MaxSrc}
CopySlices == {[k \in 1..n |-> OLD_BYTE] : n \in 0..MaxBufLen}
CopyDests == UNION {[1..n -> CopySlices] : n \in 0..MaxBufs}

\* any source and any destination
CopyInitAny == copy_src \in CopySources /\ copy_dest \in CopyDests

\* copy_to_buffers(copy_src, copy_dest), once
Copy_copy_to_buffers ==
    /\ Running
    /\ call.op = "none"
    /\ copy_dest' = copy_to_buffers(copy_src, copy_dest)
    /\ call' = [op |-> "copy_to_buffers"]
    /\ UNCHANGED othersCopy

NextCopy == Copy_copy_to_buffers

InitCopy == InitCommon /\ DLDInit /\ PCBIdle /\ SchedInit /\ ProcInit /\ ExecInit
            /\ MmapInit /\ CopyInitAny /\ FsInit

SpecCopy == InitCopy /\ [][NextCopy]_vars

----------------------------------------------------------------------------
(* The file system: calls on the handle of the root directory *)

othersFs == <<dld, pcb, schedVars, procVars, execVars, mmapVars, copyVars,
              ledgerVars, lockVars, borrowVars, wrapVars>>

FsRunning == RunningUpTo(MaxFsCalls)

\* the names a caller passes: the empty name and MaxName one-byte names
Names == {EmptyName} \cup {<<b>> : b \in 1..MaxName}

\* the ids of the files on the disk
FileIds(d) == {id \in 0..(Len(d) - 1) : inode_at(d, id).type = "File"}

\* root.create(name)
Fs_create(name) ==
    /\ FsRunning
    /\ LET r == create(disk, name)
       IN  /\ disk' = r.disk
           /\ panicked' = r.panic
           /\ call' = [op |-> "create", name |-> name, ret |-> r.ret,
                       ls_before |-> ls(disk)]
    /\ ncalls' = ncalls + 1
    /\ UNCHANGED othersFs

\* root.create_link_id(name, id), id being the id of a file on the disk
Fs_create_link_id(name, id) ==
    /\ FsRunning
    /\ id \in FileIds(disk)
    /\ LET r == create_link_id(disk, name, id)
       IN  /\ disk' = r.disk
           /\ panicked' = r.panic
           /\ call' = [op |-> "create_link_id", name |-> name, id |-> id, ret |-> r.ret]
    /\ ncalls' = ncalls + 1
    /\ UNCHANGED othersFs

\* root.destroy_link(name)
Fs_destroy_link(name) ==
    /\ FsRunning
    /\ LET r == destroy_link(disk, name)
       IN  /\ disk' = r.disk
           /\ panicked' = r.panic
           /\ call' = [op |-> "destroy_link", name |-> name, ret |-> r.ret]
    /\ ncalls' = ncalls + 1
    /\ UNCHANGED othersFs

\* root.find(name), then write_at(0, buf) on the handle found
Fs_write_at(name, buf) ==
    /\ FsRunning
    /\ LET found == find(disk, name)
       IN  /\ ~found.panic
           /\ is_some(found.ret)
           /\ unwrap(found.ret) \in FileIds(disk)
           /\ disk' = write_at(disk, unwrap(found.ret), buf)
           /\ call' = [op |-> "write_at", name |-> name, id |-> unwrap(found.ret)]
    /\ ncalls' = ncalls + 1
    /\ UNCHANGED <<othersFs, panicked>>

NextFs ==
    \/ \E name \in Names : Fs_create(name)
    \/ \E name \in Names, id \in 1..MaxFsCalls : Fs_create_link_id(name, id)
    \/ \E name \in Names : Fs_destroy_link(name)
    \/ \E name \in Names, b \in 1..MaxByte : Fs_write_at(name, <<b>>)

InitFs == InitCommon /\ DLDInit /\ PCBIdle /\ SchedInit /\ ProcInit /\ ExecInit
          /\ MmapInit /\ CopyInit /\ FsInit

SpecFs == InitFs /\ [][NextFs]_vars

----------------------------------------------------------------------------
(* The file system's lock: the steps of the Inode operations that take,    *)
(* drop or need the lock, for call chains that run interleaved             *)

othersLock == <<dld, pcb, schedVars, procVars, execVars, mmapVars, copyVars, fsVars,
                ledgerVars, borrowVars, wrapVars, panicked, ncalls>>

Chains == 1..MaxChains

\* one step of an operation: "lock" is self.fs.lock(), "drop" is drop(fs),
\* "read" and "mutate" read and change the file-system state named by arg,
\* "call" calls the Inode operation arg, "return_if" returns early when a
\* condition on the data holds, "skip_if" skips the next step when one does
Step(kind, arg) == [kind |-> kind, arg |-> arg]

\* Inode::find
find_steps ==
    <<Step("lock", "fs"), Step("read", "dirent")>>

\* Inode::create_child: returns None when the name exists, allocates an
\* inode unless it creates a link
create_child_steps ==
    <<Step("lock", "fs"), Step("read", "dirent"), Step("return_if", "name exists"),
      Step("skip_if", "is_link"), Step("mutate", "inode bitmap"),
      Step("mutate", "nlink"), Step("mutate", "size"), Step("mutate", "data blocks"),
      Step("mutate", "dirent")>>

\* Inode::create and Inode::create_link_id
create_steps == <<Step("call", "create_child")>>
create_link_id_steps == <<Step("call", "create_child")>>

\* a destroy_link that keeps the lock while it clears the target
destroy_link_steps_keeps_lock ==
    <<Step("call", "find"), Step("return_if", "name not found"),
      Step("lock", "fs"), Step("mutate", "nlink"),
      Step("skip_if", "nlink > 0"), Step("call", "clear"),
      Step("mutate", "dirent")>>

\* Inode::destroy_link
destroy_link_steps ==
    <<Step("call", "find"), Step("return_if", "name not found"),
      Step("lock", "fs"), Step("mutate", "nlink"), Step("drop", "fs"),
      Step("skip_if", "nlink > 0"), Step("call", "clear"),
      Step("mutate", "dirent")>>

\* Inode::ls, Inode::read_at, Inode::stat
ls_steps == <<Step("lock", "fs"), Step("read", "dirent")>>
read_at_steps == <<Step("lock", "fs"), Step("read", "data")>>
stat_steps == <<Step("lock", "fs"), Step("read", "nlink")>>

\* Inode::write_at, with increase_size
write_at_steps ==
    <<Step("lock", "fs"), Step("mutate", "data blocks"), Step("mutate", "size"),
      Step("mutate", "data")>>

\* Inode::clear
clear_steps ==
    <<Step("lock", "fs"), Step("mutate", "size"), Step("mutate", "data blocks")>>

\* the steps of the function fn
StepsOf(fn) ==
    CASE fn = "find" -> find_steps
      [] fn = "create_child" -> create_child_steps
      [] fn = "create" -> create_steps
      [] fn = "create_link_id" -> create_link_id_steps
      [] fn = "destroy_link" -> destroy_link_steps
      [] fn = "ls" -> ls_steps
      [] fn = "read_at" -> read_at_steps
      [] fn = "stat" -> stat_steps
      [] fn = "write_at" -> write_at_steps
      [] fn = "clear" -> clear_steps

\* the operations a caller may start
InodeOps == {"find", "create", "create_link_id", "destroy_link", "ls", "read_at",
             "write_at", "clear", "stat"}

\* a call of fn begins
Frame(fn) == [fn |-> fn, pc |-> 1, holds |-> FALSE]

\* the stack st with its innermost frame replaced by f, and without it
WithTop(st, f) == [st EXCEPT ![Len(st)] = f]
Popped(st) == SubSeq(st, 1, Len(st) - 1)

\* call chain c starts the operation fn
Lock_begin(c, fn) ==
    /\ ~panicked
    /\ stacks[c] = <<>>
    /\ stacks' = [stacks EXCEPT ![c] = <<Frame(fn)>>]
    /\ call' = [op |-> "begin", chain |-> c, fn |-> fn]
    /\ UNCHANGED <<fs_lock, deadlocked, othersLock>>

\* call chain c makes the next step of its innermost call; a function that
\* returns drops its guard, a lock() on a lock held by another chain waits,
\* and a lock() on the lock the chain holds itself spins for ever
Lock_step(c) ==
    /\ ~panicked
    /\ stacks[c] # <<>>
    /\ c \notin deadlocked
    /\ LET st == stacks[c]
           f == st[Len(st)]
           steps == StepsOf(f.fn)
           returned == /\ stacks' = [stacks EXCEPT ![c] = Popped(st)]
                       /\ fs_lock' = IF f.holds THEN 0 ELSE fs_lock
                       /\ UNCHANGED deadlocked
           next(n) == [f EXCEPT !.pc = @ + n]
       IN  IF f.pc > Len(steps)
           THEN /\ returned
                /\ call' = [op |-> "return", chain |-> c, fn |-> f.fn, holder |-> fs_lock]
           ELSE LET i == steps[f.pc]
                IN  /\ call' = [op |-> i.kind, arg |-> i.arg, chain |-> c, fn |-> f.fn,
                                holder |-> fs_lock]
                    /\ CASE i.kind = "lock" ->
                              /\ fs_lock \in {0, c}
                              /\ IF fs_lock = c
                                 THEN /\ deadlocked' = deadlocked \cup {c}
                                      /\ UNCHANGED <<stacks, fs_lock>>
                                 ELSE /\ fs_lock' = c
                                      /\ stacks' = [stacks EXCEPT ![c] =
                                            WithTop(st, [next(1) EXCEPT !.holds = TRUE])]
                                      /\ UNCHANGED deadlocked
                         [] i.kind = "drop" ->
                              /\ fs_lock' = 0
                              /\ stacks' = [stacks EXCEPT ![c] =
                                    WithTop(st, [next(1) EXCEPT !.holds = FALSE])]
                              /\ UNCHANGED deadlocked
                         [] i.kind \in {"read", "mutate"} ->
                              /\ stacks' = [stacks EXCEPT ![c] = WithTop(st, next(1))]
                              /\ UNCHANGED <<fs_lock, deadlocked>>
                         [] i.kind = "call" ->
                              /\ stacks' = [stacks EXCEPT ![c] =
                                    Append(WithTop(st, next(1)), Frame(i.arg))]
                              /\ UNCHANGED <<fs_lock, deadlocked>>
                         [] i.kind = "return_if" ->
                              \E taken \in BOOLEAN :
                                 IF taken THEN returned
                                 ELSE /\ stacks' = [stacks EXCEPT ![c] = WithTop(st, next(1))]
                                      /\ UNCHANGED <<fs_lock, deadlocked>>
                         [] i.kind = "skip_if" ->
                              /\ \E taken \in BOOLEAN :
                                    stacks' = [stacks EXCEPT ![c] =
                                       WithTop(st, next(IF taken THEN 2 ELSE 1))]
                              /\ UNCHANGED <<fs_lock, deadlocked>>
    /\ UNCHANGED othersLock

NextLock ==
    \/ \E c \in Chains, fn \in InodeOps : Lock_begin(c, fn)
    \/ \E c \in Chains : Lock_step(c)

InitLock == InitCommon /\ DLDInit /\ PCBIdle /\ SchedInit /\ ProcInit /\ ExecInit
            /\ MmapInit /\ CopyInit /\ FsInit

SpecLock == InitLock /\ [][NextLock]_vars

----------------------------------------------------------------------------
(* Reference definitions for the detector's claims *)

\* the registered threads and the present resources of a detector
Registered(self) == {i \in 0..(Len(self.alloc) - 1) : is_some(At(self.alloc, i))}
Present(self) == {j \in 0..(Len(self.avail) - 1) : is_some(At(self.avail, j))}
AvailOf(self, j) == unwrap(At(self.avail, j))
AllocOf(self, i, j) == unwrap(At(unwrap(At(self.alloc, i)), j))
NeedOf(self, i, j) == unwrap(At(unwrap(At(self.need, i)), j))

\* a tid below the highest registered tid has no row
HasHole(self) == \E i \in 0..(Len(self.alloc) - 1) : is_none(At(self.alloc, i))

\* the threads outside `done` can all run to completion in some order, each
\* needing no more than work and giving its allocation back when it finishes
RECURSIVE CanAllFinish(_, _, _)
CanAllFinish(self, done, work) ==
    \/ Registered(self) \subseteq done
    \/ \E i \in Registered(self) \ done :
          /\ \A j \in Present(self) : NeedOf(self, i, j) <= work[j]
          /\ CanAllFinish(self, done \cup {i},
                          [j \in Present(self) |-> work[j] + AllocOf(self, i, j)])

\* the Banker's safety of a detector state
Safe(self) == CanAllFinish(self, {}, [j \in Present(self) |-> AvailOf(self, j)])

\* the matrix with cell (i, j) set to v
WithCell(matrix, i, j, v) ==
    [matrix EXCEPT ![i + 1] = Some([unwrap(@) EXCEPT ![j + 1] = Some(v)])]

\* the state a request of one unit of j by thread i is checked in
Tentative(self, i, j) ==
    IF AvailOf(self, j) >= 1
    THEN [avail |-> [self.avail EXCEPT ![j + 1] = Some(AvailOf(self, j) - 1)],
          alloc |-> WithCell(self.alloc, i, j, AllocOf(self, i, j) + 1),
          need |-> WithCell(self.need, i, j, 0)]
    ELSE [avail |-> self.avail, alloc |-> self.alloc,
          need |-> WithCell(self.need, i, j, 1)]

\* this step is a call of get_resource by a registered thread for a present resource
GetResourceStep ==
    /\ ncalls' = ncalls + 1
    /\ call'.op = "get_resource"
    /\ call'.tid \in Registered(dld)
    /\ call'.res \in Present(dld)

\* the last call returned r
Returned(r) == ~panicked /\ call.ret = r

----------------------------------------------------------------------------
(* Claims about the detector *)

\* C1: get_resource(1, tid, j) returns 0 exactly when the state obtained by the
\* tentative update of the request is safe, and -1 exactly when it is not.
C1_ReturnsZeroIffSafe ==
    [][GetResourceStep =>
        LET t == Tentative(dld, call'.tid, call'.res)
        IN  /\ Returned(0)' <=> Safe(t)
            /\ Returned(-1)' <=> ~Safe(t)]_vars

\* C1, on detector states without a hole: the result of get_resource is the
\* reference safety of the tentative state
C1_ReturnsZeroIffSafeNoHole ==
    [][(GetResourceStep /\ ~HasHole(dld)) =>
        LET t == Tentative(dld, call'.tid, call'.res)
        IN  /\ Returned(0)' <=> Safe(t)
            /\ Returned(-1)' <=> ~Safe(t)]_vars

\* C2: when get_resource returns -1, avail, alloc and need are what they were
\* before the call.
C2_RollbackOnUnsafe ==
    [][(GetResourceStep /\ Returned(-1)') => dld' = dld]_vars

\* C2 witness: a request was refused
C2_Witness ==
    /\ call.op = "get_resource"
    /\ Returned(-1)

\* C3: every reachable detector state is safe.
C3_AlwaysSafe == Safe(dld)

\* C3 witness: a unit was released while some thread is recorded as waiting
C3_Witness ==
    /\ call.op = "release_resource"
    /\ ~panicked
    /\ \E i \in Registered(dld), j \in Present(dld) : NeedOf(dld, i, j) = 1

\* C20: when get_resource(1, tid, j) returns 0 the detector is updated as
\* follows: with avail[j] >= 1, avail[j] is one less, alloc[tid][j] one more
\* and need[tid][j] = 0; with avail[j] = 0, need[tid][j] = 1 while avail and
\* alloc are as before; every other entry is unchanged in both cases.
C20_GrantOrWait ==
    [][(GetResourceStep /\ Returned(0)') =>
        LET i == call'.tid
            j == call'.res
        IN  /\ AvailOf(dld, j) >= 1 =>
                 /\ AvailOf(dld', j) = AvailOf(dld, j) - 1
                 /\ AllocOf(dld', i, j) = AllocOf(dld, i, j) + 1
                 /\ NeedOf(dld', i, j) = 0
            /\ AvailOf(dld, j) = 0 =>
                 /\ NeedOf(dld', i, j) = 1
                 /\ dld'.avail = dld.avail
                 /\ dld'.alloc = dld.alloc
            /\ dld'.avail = [dld.avail EXCEPT ![j + 1] = dld'.avail[j + 1]]
            /\ dld'.alloc = WithCell(dld.alloc, i, j, AllocOf(dld', i, j))
            /\ dld'.need = WithCell(dld.need, i, j, NeedOf(dld', i, j))]_vars

\* C20 witness: a thread that was recorded as waiting for a resource has
\* been granted a unit of it, while another thread holds a unit of some
\* resource
C20_Witness ==
    /\ call.op = "get_resource"
    /\ Returned(0)
    /\ call.tid \in Registered(dld) /\ call.res \in Present(dld)
    /\ AllocOf(dld, call.tid, call.res) >= 1
    /\ NeedOf(dld, call.tid, call.res) = 0
    /\ \E i \in Registered(dld) \ {call.tid}, j \in Present(dld) : AllocOf(dld, i, j) >= 1

\* a request has been recorded as waiting: no unit was available
C20_WitnessWaiting ==
    /\ call.op = "get_resource"
    /\ Returned(0)
    /\ call.tid \in Registered(dld) /\ call.res \in Present(dld)
    /\ AvailOf(dld, call.res) = 0
    /\ NeedOf(dld, call.tid, call.res) = 1

\* this step is a call of release_resource by a registered thread for a
\* present resource
ReleaseResourceStep ==
    /\ ncalls' = ncalls + 1
    /\ call'.op = "release_resource"
    /\ call'.tid \in Registered(dld)
    /\ call'.res \in Present(dld)

\* the release of one unit of j by thread i turns detector d into d2
ReleasedOne(d, i, j, d2) ==
    /\ d2.avail = [d.avail EXCEPT ![j + 1] = Some(AvailOf(d, j) + 1)]
    /\ d2.alloc = WithCell(d.alloc, i, j, AllocOf(d, i, j) - 1)
    /\ d2.need = d.need

\* C21: release_resource(1, tid, j) adds exactly 1 to avail[j] and takes
\* exactly 1 from alloc[tid][j], leaves need and every other entry of avail
\* and alloc unchanged, runs no safety check and never rejects the release.
C21_ReleaseEffect ==
    [][ReleaseResourceStep =>
        (~panicked' /\ ReleasedOne(dld, call'.tid, call'.res, dld'))]_vars

\* C21 for the releases of a thread that alloc records as holding a unit
C21_ReleaseEffectOfHolder ==
    [][(ReleaseResourceStep /\ AllocOf(dld, call'.tid, call'.res) >= 1) =>
        (~panicked' /\ ReleasedOne(dld, call'.tid, call'.res, dld'))]_vars

\* C22: absent slots are skipped by the safety check: on a detector with a
\* hole, get_resource for a present thread completes without aborting, and
\* its result is decided by the present threads only (0 when they can all
\* finish from the tentative state, -1 otherwise).
C22_HolesAreSkipped ==
    [][(GetResourceStep /\ HasHole(dld)) =>
        LET t == Tentative(dld, call'.tid, call'.res)
        IN  /\ ~panicked'
            /\ call'.ret = IF Safe(t) THEN 0 ELSE -1]_vars

\* what the code does on a detector with a hole: every get_resource aborts
C22_HolesAbort ==
    [][(GetResourceStep /\ HasHole(dld)) => panicked']_vars

----------------------------------------------------------------------------
(* Claims about the deadlock detection of a process *)

\* the mutex family of the process's detector
Mtx == pcb.deadlock_ctl.mtx

\* t1 and t2 are the two registered threads, a and b the two mutexes, t1 has
\* been granted a and t2 has been granted b
CrossState(m, t1, t2, a, b) ==
    /\ t1 # t2
    /\ a # b
    /\ Registered(m) = {t1, t2}
    /\ Present(m) = {a, b}
    /\ AllocOf(m, t1, a) = 1
    /\ AllocOf(m, t2, b) = 1

\* two threads each wait for a mutex allocated to the other
CrossWait(m) ==
    \E t1, t2 \in Registered(m), a, b \in Present(m) :
        /\ t1 # t2
        /\ AllocOf(m, t1, a) = 1 /\ NeedOf(m, t2, a) = 1
        /\ AllocOf(m, t2, b) = 1 /\ NeedOf(m, t1, b) = 1

\* this step is a call of get_mutex_resource
GetMutexStep ==
    /\ ncalls' = ncalls + 1
    /\ call'.op = "get_mutex_resource"

\* C4: with detection enabled, threads t1, t2 and mutexes a, b, t1 holding a and
\* t2 holding b: the first cross request returns 0 and is recorded as a need,
\* the second returns -1 and changes nothing (both threads stay registered
\* with their allocations), and never do both threads wait for the mutex of
\* the other.
C4_LockOrderInversion ==
    /\ [](~CrossWait(Mtx))
    /\ [][GetMutexStep =>
            \A t2 \in Tids, a \in ResIds :
                CrossState(Mtx, call'.tid, t2, a, call'.res) =>
                    IF NeedOf(Mtx, t2, a) = 0
                    THEN /\ Returned(0)'
                         /\ NeedOf(Mtx', call'.tid, call'.res) = 1
                         /\ Mtx'.alloc = Mtx.alloc
                         /\ Mtx'.avail = Mtx.avail
                    ELSE /\ Returned(-1)'
                         /\ Mtx' = Mtx]_vars

\* C4 witness: the second cross request was refused
C4_Witness ==
    /\ call.op = "get_mutex_resource"
    /\ Returned(-1)
    /\ pcb.deadlock_detect
    /\ \E t2 \in Tids, a \in ResIds :
          /\ CrossState(Mtx, call.tid, t2, a, call.res)
          /\ NeedOf(Mtx, t2, a) = 1

\* a detector family holds nothing
EmptyFamily(f) == f.avail = <<>> /\ f.alloc = <<>> /\ f.need = <<>>

\* C5: disable_deadlock_detect with detection enabled returns 0, clears the
\* flag and leaves both families empty; with detection not enabled it returns
\* -1 and changes nothing.  enable_deadlock_detect returns 0 only when
\* mutex_list and semaphore_list are both empty.
C5_EnableDisable ==
    /\ [][(ncalls' = ncalls + 1 /\ call'.op = "disable_deadlock_detect") =>
            IF pcb.deadlock_detect
            THEN /\ Returned(0)'
                 /\ ~pcb'.deadlock_detect
                 /\ EmptyFamily(pcb'.deadlock_ctl.mtx)
                 /\ EmptyFamily(pcb'.deadlock_ctl.sem)
            ELSE /\ Returned(-1)'
                 /\ pcb' = pcb]_vars
    /\ [][(ncalls' = ncalls + 1 /\ call'.op = "enable_deadlock_detect" /\ Returned(0)') =>
            pcb.mutex_list = <<>> /\ pcb.semaphore_list = <<>>]_vars

\* C5 witness: detection was disabled on a process whose detector held
\* threads, a mutex and a semaphore
C5_Witness ==
    /\ call.op = "disable_deadlock_detect"
    /\ Returned(0)
    /\ pcb.mutex_list # <<>>
    /\ pcb.semaphore_list # <<>>


----------------------------------------------------------------------------
(* Reference definitions for the scheduler's claims *)

\* the number of occurrences of x in sequence q
Count(q, x) == Cardinality({k \in 1..Len(q) : q[k] = x})

\* the tasks in a ready queue
Queued(q) == {q[k] : k \in 1..Len(q)}

\* the queued tasks of minimal stride
MinStride(q) == {t \in Queued(q) : \A u \in Queued(q) : tcb[t].stride <= tcb[u].stride}

\* the task of minimal stride that was added to the queue earliest
EarliestMinStride ==
    LET k == Min({n \in 1..Len(enq_order) : enq_order[n] \in MinStride(ready_queue)})
    IN  enq_order[k]

\* this step is a call of fetch; this step puts call'.task into the queue
FetchStep == call'.op = "fetch"
AddStep == call'.op \in {"add", "suspend"}

C7_FifoTieBreak ==
    [][ (FetchStep /\ is_some(call'.ret)) => unwrap(call'.ret) = EarliestMinStride ]_vars

C9_SetPriority ==
    /\ [](\A t \in Tasks : tcb[t].priority >= 2)
    /\ [][ call'.op = "sys_set_priority" =>
             LET t == call'.task
                 p == call'.prio
             IN  /\ p < 2 => (call'.ret = -1 /\ tcb'[t] = tcb[t])
                 /\ p >= 2 => (call'.ret = p /\ tcb'[t].priority = p
                                /\ tcb'[t].stride = tcb[t].stride)
                 /\ \A u \in Tasks \ {t} : tcb'[u] = tcb[u]
         ]_vars

\* a call with p < 2 has been rejected after a call that had set the
\* caller's priority to 2
C9_Witness ==
    /\ call.op = "sys_set_priority"
    /\ call.prio < 2
    /\ call.ret = -1
    /\ tcb[call.task].priority = 2


----------------------------------------------------------------------------
(* Reference definitions for sys_waitpid's claims *)

\* the children that match pid, and the zombies among them, by position
Matching(pid) == {k \in 1..Len(children) : pid = -1 \/ children[k].pid = pid}
MatchingZombies(pid) == {k \in Matching(pid) : children[k].is_zombie}

C11_WaitpidFrame ==
    [][ (call'.op = "sys_waitpid" /\ ~panicked') =>
          LET pid == call'.pid
              ret == call'.ret
          IN  /\ ret \in {-1, -2} =>
                    (children' = children /\ user_exit_code' = user_exit_code)
              /\ ret \notin {-1, -2} =>
                    LET k == Min(MatchingZombies(pid))
                    IN  /\ children[k].pid = ret
                        /\ children' = SubSeq(children, 1, k - 1)
                                         \o SubSeq(children, k + 1, Len(children))
                        /\ user_exit_code' = children[k].exit_code
                        /\ \A n \in 1..Len(children') : children'[n].pid # ret
      ]_vars

\* sys_waitpid has reaped a child with exit code 1 that was followed by two
\* other children, and the user's location holds 1
C11_Witness ==
    /\ ~panicked
    /\ call.op = "sys_waitpid"
    /\ call.ret >= 1
    /\ user_exit_code = 1
    /\ Len(children) = 2
    /\ children[1].pid > call.ret
    /\ children[2].pid < call.ret


\* this step is a call of sys_waitpid that finds a zombie child to reap,
\* the child at position ReapIndex of the children list
ReapStep ==
    /\ ncalls' = ncalls + 1
    /\ call'.op = "sys_waitpid"
    /\ MatchingZombies(call'.pid) # {}

ReapIndex == Min(MatchingZombies(call'.pid))

\* C23: the assertion of sys_waitpid always holds: whenever a zombie child
\* is removed from the children list, the list's entry is the only strong
\* reference to the child that is left (none in the pid-to-process map, in
\* the ready queue or elsewhere), so reaping deallocates the child.
C23_ReapDropsLastReference ==
    [][ReapStep =>
        (children[ReapIndex].strong_count = 1 /\ ~panicked')]_vars

\* the references of a zombie child: the children list, and the ready queue
\* for as long as the handle put there by sys_fork has not been popped
C23_ZombieReferences ==
    \A k \in 1..Len(children) :
        children[k].is_zombie => children[k].strong_count \in {1, 2}

----------------------------------------------------------------------------
(* Reference definitions for sys_fork's claim *)

\* the pids of the live processes: the caller and its children
LivePids == {SelfPid} \cup {children[k].pid : k \in 1..Len(children)}

\* this step is a call of sys_fork that returns
ForkStep == call'.op = "sys_fork" /\ ~panicked'

\* what sys_fork does to the pid, the children list and the child's trap
\* context and parent reference
ForkLinksChild ==
    LET c == children'[Len(children')]
    IN  /\ call'.ret \notin LivePids
        /\ Len(children') = Len(children) + 1
        /\ SubSeq(children', 1, Len(children)) = children
        /\ c.pid = call'.ret
        /\ c.task = call'.task
        /\ ~c.is_zombie
        /\ c.parent = Some(SelfPid)
        /\ c.trap_cx = [trap_cx EXCEPT !.x10 = 0, !.kernel_sp = kstack_top(c.task)]
        /\ c.trap_cx.kernel_sp # trap_cx.kernel_sp
        /\ trap_cx' = trap_cx

\* C12: sys_fork returns the new child's pid, which no live process has; the
\* child's main-thread trap context is the parent's except x[10] = 0 and
\* kernel_sp = the top of the child's own kernel stack; the child is appended
\* to the parent's children with the forking process as its parent; and its
\* main thread is placed in the ready queue exactly once.
C12_ForkEffect ==
    [][ ForkStep =>
          /\ ForkLinksChild
          /\ Count(ready_queue', call'.task) = 1
          /\ \A x \in Tasks : Count(ready_queue', x) = Count(ready_queue, x)
      ]_vars

\* the part of C12 that the code keeps: everything but the number of
\* ready-queue entries of the child
C12_ForkEffectButQueue ==
    [][ ForkStep =>
          /\ ForkLinksChild
          /\ Count(ready_queue', call'.task) = 2
          /\ \A x \in Tasks : Count(ready_queue', x) = Count(ready_queue, x)
      ]_vars


----------------------------------------------------------------------------
(* Reference definitions for exec's claim *)

\* the address in argv[i] after the step, i counted from 0
ArgvAfter(i) == load_usize(umem', trap_cx'.x11 + i * SIZE_OF_USIZE)

\* the addresses of the copy of argument i, terminator included
ArgRange(i) == ArgvAfter(i)..(ArgvAfter(i) + Len(At(call'.args, i)))

\* C13: after exec(elf, args) on a single-threaded process x[10] = argc and
\* x[11] = argv_base = ustack_top - (argc + 1) * 8; argv[argc] = 0; argv[i] is
\* the address of a byte-exact copy of args[i] followed by a 0 byte; the
\* copies are pairwise disjoint and lie below argv_base; the user stack
\* pointer is a multiple of 8 and <= every string address.
C13_ExecArgs ==
    [][ (call'.op = "exec" /\ thread_count(pcb) = 1) =>
          LET args == call'.args
              argc == Len(args)
          IN  /\ ~panicked'
              /\ trap_cx'.x10 = argc
              /\ trap_cx'.x11 = USTACK_TOP - (argc + 1) * 8
              /\ ArgvAfter(argc) = 0
              /\ \A i \in 0..(argc - 1) :
                    /\ \A k \in 1..Len(At(args, i)) :
                          umem'[ArgvAfter(i) + k - 1] = At(args, i)[k]
                    /\ umem'[ArgvAfter(i) + Len(At(args, i))] = 0
                    /\ \A a \in ArgRange(i) : a >= 0 /\ a < trap_cx'.x11
                    /\ trap_cx'.sp <= ArgvAfter(i)
              /\ \A i, j \in 0..(argc - 1) :
                    i # j => ArgRange(i) \cap ArgRange(j) = {}
              /\ trap_cx'.sp % 8 = 0
              /\ trap_cx'.sp >= 0
      ]_vars

\* exec has pushed two arguments of different lengths with non-zero bytes, and
\* the alignment has moved the stack pointer below the lowest string
C13_Witness ==
    /\ ~panicked
    /\ call.op = "exec"
    /\ Len(call.args) = 2
    /\ Len(call.args[1]) = 2 /\ Len(call.args[2]) = 1
    /\ \A k \in 1..2 : call.args[1][k] # 0
    /\ call.args[2][1] # 0
    /\ trap_cx.x10 = 2
    /\ trap_cx.sp < load_usize(umem, trap_cx.x11 + SIZE_OF_USIZE)


----------------------------------------------------------------------------
(* Reference definitions for sys_mmap's claim *)

\* port is a non-empty subset of the bits R, W, X
ValidPort(port) == port \in 1..7

\* C14: sys_mmap(start, len, port) returns -1 and leaves the address space
\* unchanged whenever port is zero, has a bit other than bits 0..2, or start
\* is not page-aligned, for every len; it returns 0 only when port is valid
\* and start is page-aligned.
C14_MmapRejects ==
    [][ call'.op = "sys_mmap" =>
          LET c == call'
          IN  /\ (~ValidPort(c.port) \/ c.start % PAGE_SIZE # 0) =>
                    (c.ret = -1 /\ areas' = areas)
              /\ c.ret = 0 => (ValidPort(c.port) /\ c.start % PAGE_SIZE = 0)
      ]_vars

\* the part of C14 that the code keeps: the claim for every len but 0, and
\* an unchanged address space for len = 0
C14_MmapRejectsNonzeroLen ==
    [][ call'.op = "sys_mmap" =>
          LET c == call'
          IN  /\ (c.len # 0 /\ (~ValidPort(c.port) \/ c.start % PAGE_SIZE # 0)) =>
                    (c.ret = -1 /\ areas' = areas)
              /\ (c.len # 0 /\ c.ret = 0) =>
                    (ValidPort(c.port) /\ c.start % PAGE_SIZE = 0)
              /\ c.len = 0 => areas' = areas
              /\ c.start % PAGE_SIZE # 0 => c.ret = -1
      ]_vars


----------------------------------------------------------------------------
(* Reference definitions for copy_to_buffers' claim *)

\* the concatenation of the slices of a destination
RECURSIVE Flatten(_)
Flatten(dest) == IF dest = <<>> THEN <<>> ELSE Head(dest) \o Flatten(Tail(dest))

\* C15: for every source and every split of the destination into slices of
\* total length >= |src|, after copy_to_buffers the first |src| bytes of the
\* concatenated destination equal src in order, every later byte is
\* unchanged, and every slice keeps its length.
C15_CopyToBuffers ==
    [][ (call'.op = "copy_to_buffers" /\ Len(Flatten(copy_dest)) >= Len(copy_src)) =>
          /\ Len(copy_dest') = Len(copy_dest)
          /\ \A k \in 1..Len(copy_dest) : Len(copy_dest'[k]) = Len(copy_dest[k])
          /\ SubSeq(Flatten(copy_dest'), 1, Len(copy_src)) = copy_src
          /\ \A n \in (Len(copy_src) + 1)..Len(Flatten(copy_dest)) :
                Flatten(copy_dest')[n] = Flatten(copy_dest)[n]
      ]_vars

\* three bytes have been copied into slices of lengths 2, 0 and 2: the copy
\* crosses two slice boundaries and leaves the last byte as it was
C15_Witness ==
    /\ call.op = "copy_to_buffers"
    /\ Len(copy_src) = 3
    /\ Len(copy_dest) = 3
    /\ Len(copy_dest[1]) = 2 /\ Len(copy_dest[2]) = 0 /\ Len(copy_dest[3]) = 2
    /\ copy_dest[1] = SubSeq(copy_src, 1, 2)
    /\ copy_dest[3] = <<copy_src[3], OLD_BYTE>>

----------------------------------------------------------------------------
(* Reference definitions for the file system's claims *)

\* the entries of the root directory of the disk d
Entries(d) == inode_at(d, 0).data

\* an entry is a tombstone when all its bytes are zero
IsTombstone(e) == e = DirEntry_empty

\* the positions of the live entries, of those naming the inode id, and of
\* those carrying the name
LiveAt(d) == {i \in 1..Len(Entries(d)) : ~IsTombstone(Entries(d)[i])}
LiveNaming(d, id) == {i \in LiveAt(d) : Entries(d)[i].inode_id = id}
LiveNamed(d, name) == {i \in LiveAt(d) : Entries(d)[i].name = name}

\* the directory holds an entry whose name reads as name
HasEntryNamed(d, name) == \E i \in 1..Len(Entries(d)) : Entries(d)[i].name = name

\* C16: create(name) and create_link_id(name, id) on a directory that already
\* holds an entry named name return None and change nothing on the disk: no
\* inode is allocated, no nlink changes, the directory keeps its size and
\* its entries.
C16_DuplicateNameRejected ==
    [][(call'.op \in {"create", "create_link_id"} /\ ncalls' = ncalls + 1
        /\ HasEntryNamed(disk, call'.name))
       => (is_none(call'.ret) /\ disk' = disk /\ ~panicked')]_vars

\* a create or a link of a name that a live entry carries has returned None
C16_Witness ==
    /\ call.op \in {"create", "create_link_id"}
    /\ is_none(call.ret)
    /\ LiveNamed(disk, call.name) # {}
    /\ Len(Entries(disk)) >= 2
    /\ Entries(disk)[1].name # call.name

\* C17: after any sequence of create, create_link_id (on the id of an
\* existing file) and destroy_link calls that returned, the nlink of every
\* file inode is the number of live (non-tombstone) directory entries that
\* name it.
C17_NlinkCountsLiveEntries ==
    ~panicked => \A id \in FileIds(disk) :
                    inode_at(disk, id).nlink = Cardinality(LiveNaming(disk, id))

\* a file with two live entries next to a tombstone, after an unlink
C17_Witness ==
    /\ ~panicked
    /\ call.op = "destroy_link"
    /\ call.ret = 0
    /\ \E id \in FileIds(disk) :
          /\ inode_at(disk, id).nlink = 2
          /\ Cardinality(LiveNaming(disk, id)) = 2
    /\ \E i \in 1..Len(Entries(disk)) : IsTombstone(Entries(disk)[i])

\* C18: create(name) followed by destroy_link(name) leaves ls() as it was
\* before the create: the same names in the same order, the same length.
C18_CreateDestroyKeepsLs ==
    [][(call.op = "create" /\ is_some(call.ret)
        /\ call'.op = "destroy_link" /\ call'.name = call.name
        /\ ncalls' = ncalls + 1)
       => ls(disk') = call.ls_before]_vars

\* what the pair leaves instead: the listing of before with one more entry,
\* of the empty name, at its end
C18_CreateDestroyLeavesTombstone ==
    [][(call.op = "create" /\ is_some(call.ret)
        /\ call'.op = "destroy_link" /\ call'.name = call.name
        /\ ncalls' = ncalls + 1)
       => (/\ call'.ret = 0
           /\ ~panicked'
           /\ ls(disk') = Append(call.ls_before, EmptyName))]_vars

\* what destroy_link(name) is to do on the disk d: with a live entry named
\* name, take one from the nlink of the inode it names, free that inode's
\* data exactly when its nlink reaches 0, leave every other inode's nlink
\* and data alone and return 0; without one, return -1 and change nothing
UnlinkAsSpecified(d, name, ret, d2) ==
    IF LiveNamed(d, name) # {}
    THEN LET target == Entries(d)[Min(LiveNamed(d, name))].inode_id
         IN  /\ ret = 0
             /\ Len(d2) = Len(d)
             /\ inode_at(d2, target).nlink = inode_at(d, target).nlink - 1
             /\ inode_at(d2, target).data =
                   IF inode_at(d2, target).nlink = 0 THEN <<>>
                   ELSE inode_at(d, target).data
             /\ \A id \in FileIds(d) \ {target} : inode_at(d2, id) = inode_at(d, id)
             /\ inode_at(d2, 0).nlink = inode_at(d, 0).nlink
    ELSE ret = -1 /\ d2 = d

\* C19: destroy_link(name) on an existing entry decrements the target's
\* nlink by exactly 1 and returns 0; the target's data blocks are freed and
\* its size is 0 exactly when its nlink reaches 0, and while another link
\* remains the contents stay as they were; destroy_link of a name that is
\* not in the directory returns -1 and changes nothing.
C19_DestroyLink ==
    [][(call'.op = "destroy_link" /\ ncalls' = ncalls + 1)
       => (~panicked' /\ UnlinkAsSpecified(disk, call'.name, call'.ret, disk'))]_vars

\* the same for every name but the empty one
C19_DestroyLinkOfNonEmptyName ==
    [][(call'.op = "destroy_link" /\ ncalls' = ncalls + 1 /\ call'.name # EmptyName)
       => (~panicked' /\ UnlinkAsSpecified(disk, call'.name, call'.ret, disk'))]_vars


----------------------------------------------------------------------------------------------------------------------------------------
(* The borrows of the control blocks' inner state.  A system call runs on   *)
(* the single hart without being preempted inside the kernel, so the calls  *)
(* run one after the other; each is the sequence of its borrows, releases   *)
(* and assertions, in program order.                                        *)

othersTree == <<dld, pcb, schedVars, children, trap_cx, execVars, mmapVars, copyVars,
                fsVars, ledgerVars, lockVars, wrapVars>>

\* the UPSafeCells: the inner state of process p, the inner state of the main
\* thread of process p, and TASK_MANAGER
pcb_inner(p) == <<"pcb", p>>
tcb_inner(p) == <<"tcb", p>>
TASK_MANAGER == <<"task_manager">>

\* the steps of a system call
exclusive_access(cell) == [kind |-> "borrow_mut", cell |-> cell]
shared_access(cell) == [kind |-> "borrow", cell |-> cell]
drop_access(cell) == [kind |-> "drop", cell |-> cell]
assert_fails(what) == [kind |-> "panic", cell |-> <<what>>]
returns(tree, mem, ret) ==
    [kind |-> "return", cell |-> <<>>, procs |-> tree, mem |-> mem, ret |-> ret]

\* a borrow that ends with the statement it is made in
temporary(cell) == <<exclusive_access(cell), drop_access(cell)>>

\* the process p of the tree, and its number of threads: the init process has
\* the thread table of pcb, a forked process the one thread fork gave it
Proc(p) == unwrap(procs[p])
threads(p) == IF p = INITPROC THEN thread_count(pcb) ELSE thread_count([tasks |-> <<Some("tcb")>>])

\* the processes that can make a system call
Callers == {p \in Pids : is_some(procs[p]) /\ ~Proc(p).is_zombie}

\* sys_waitpid(pid, exit_code_ptr) called by process p: inner is borrowed for
\* the whole call; find() borrows each child it looks at, up to and including
\* the first zombie that matches, for the time of the look; the child found
\* is borrowed once more for its exit code
sys_waitpid_steps(p, pid) ==
    LET chs == Proc(p).children
        matches(k) == pid = -1 \/ AsUsize(pid) = Proc(chs[k]).pid
        Z == {k \in 1..Len(chs) : Proc(chs[k]).is_zombie /\ matches(k)}
        looked == IF Z = {} THEN Len(chs) ELSE Min(Z)
        find_steps_ == [i \in 1..(2 * looked) |->
                          IF i % 2 = 1 THEN exclusive_access(pcb_inner(chs[(i + 1) \div 2]))
                          ELSE drop_access(pcb_inner(chs[i \div 2]))]
    IN  <<exclusive_access(pcb_inner(p))>> \o
        IF ~(\E k \in 1..Len(chs) : matches(k))
        THEN <<drop_access(pcb_inner(p)), returns(procs, None, -1)>>
        ELSE find_steps_ \o
             IF Z = {}
             THEN <<drop_access(pcb_inner(p)), returns(procs, None, -2)>>
             ELSE LET idx == Min(Z)
                      child == chs[idx]
                      tree == [procs EXCEPT ![p] = Some([Proc(p) EXCEPT
                                                  !.children = VecRemove(chs, idx - 1)]),
                                            ![child] = None]
                  IN  IF Proc(child).strong_count # 1
                      THEN <<assert_fails("strong_count")>>
                      ELSE temporary(pcb_inner(child)) \o
                           <<drop_access(pcb_inner(p)),
                             returns(tree, Some(Proc(child).exit_code), child)>>

\* the process tree after process p has forked the process c
forked(p, c) ==
    LET new == sys_fork(p, <<>>, trap_cx, c, c).children[1]
    IN  [procs EXCEPT
           ![p] = Some([Proc(p) EXCEPT !.children = Append(@, c)]),
           ![c] = Some([pid |-> new.pid, is_zombie |-> new.is_zombie,
                        exit_code |-> new.exit_code, strong_count |-> new.strong_count,
                        parent |-> new.parent, children |-> <<>>])]

\* ProcessControlBlock::fork called by process p, the child being c: parent is
\* borrowed up to the end of fork; under it the parent's main thread for the
\* base of its user stack, the child for its thread table, the child's main
\* thread for its trap context, and add_task
fork_steps(p, c) ==
    <<exclusive_access(pcb_inner(p))>> \o
    IF threads(p) # 1
    THEN <<assert_fails("thread_count")>>
    ELSE temporary(tcb_inner(p)) \o temporary(pcb_inner(c)) \o temporary(tcb_inner(c)) \o
         temporary(TASK_MANAGER) \o <<drop_access(pcb_inner(p))>>

\* sys_fork: fork, then what fork returned is borrowed for its trap context,
\* then add_task
sys_fork_steps(p, c) ==
    LET f == fork_steps(p, c)
    IN  IF f[Len(f)].kind = "panic" THEN f
        ELSE f \o temporary(pcb_inner(c)) \o temporary(TASK_MANAGER) \o
             <<returns(forked(p, c), None, c)>>

\* an exec that keeps its first borrow of the inner state in a variable
exec_steps_keeps_inner(p) ==
    <<exclusive_access(pcb_inner(p))>> \o
    IF threads(p) # 1
    THEN <<assert_fails("thread_count")>>
    ELSE temporary(pcb_inner(p)) \o temporary(pcb_inner(p)) \o
         <<drop_access(pcb_inner(p))>> \o
         temporary(tcb_inner(p)) \o <<returns(procs, None, 0)>>

\* ProcessControlBlock::exec called by process p: the inner state is borrowed
\* three times, for thread_count, for memory_set and for get_task(0), each
\* time for one statement; then the main thread up to the end of exec
exec_steps(p) ==
    <<exclusive_access(pcb_inner(p))>> \o
    IF threads(p) # 1
    THEN <<assert_fails("thread_count")>>
    ELSE <<drop_access(pcb_inner(p))>> \o
         temporary(pcb_inner(p)) \o temporary(pcb_inner(p)) \o
         temporary(tcb_inner(p)) \o <<returns(procs, None, 0)>>

\* sys_mmap(start, len, port) called by process p: the inner state is
\* borrowed for try_insert_framed_area when the arguments are accepted; the
\* address spaces are not part of the process tree, and the result is then
\* whatever try_insert_framed_area returns
sys_mmap_steps(p, start, len, port) ==
    IF start % PAGE_SIZE # 0 THEN <<returns(procs, None, -1)>>
    ELSE IF len = 0 THEN <<returns(procs, None, 0)>>
    ELSE IF or_0b111(port) # 7 \/ and_0b111(port) = 0 THEN <<returns(procs, None, -1)>>
    ELSE temporary(pcb_inner(p)) \o <<returns(procs, None, "try_insert_framed_area")>>

\* sys_munmap(start, len) called by process p
sys_munmap_steps(p, start, len) ==
    IF start % PAGE_SIZE # 0 THEN <<returns(procs, None, -1)>>
    ELSE IF len = 0 THEN <<returns(procs, None, 0)>>
    ELSE temporary(pcb_inner(p)) \o <<returns(procs, None, "try_remove_area")>>

\* sys_set_priority(prio) called by process p
sys_set_priority_steps(p, prio) ==
    IF prio < 2 THEN <<returns(procs, None, -1)>>
    ELSE temporary(pcb_inner(p)) \o <<returns(procs, None, prio)>>

\* sys_task_info called by process p: a shared borrow for the copy
sys_task_info_steps(p) ==
    <<shared_access(pcb_inner(p)), drop_access(pcb_inner(p)), returns(procs, None, 0)>>

\* the borrows of cell that are outstanding
Outstanding(cell) == {i \in 1..Len(borrowed) : borrowed[i].cell = cell}

\* the borrows without the youngest one of cell
Dropped(cell) ==
    LET i == CHOOSE k \in Outstanding(cell) : \A l \in Outstanding(cell) : l <= k
    IN  SubSeq(borrowed, 1, i - 1) \o SubSeq(borrowed, i + 1, Len(borrowed))

\* process p enters the kernel with the system call op, whose steps are steps
Tree_syscall(p, op, arg, steps) ==
    /\ RunningUpTo(MaxTreeCalls)
    /\ todo = <<>>
    /\ todo' = steps
    /\ call' = [op |-> op, caller |-> p, arg |-> arg]
    /\ UNCHANGED <<procs, borrowed, user_exit_code, panicked, othersTree>>

Tree_sys_waitpid(p, pid) ==
    /\ p \in Callers
    /\ Tree_syscall(p, "sys_waitpid", pid, sys_waitpid_steps(p, pid))

Tree_sys_fork(p, c) ==
    /\ p \in Callers
    /\ procs[c] = None
    /\ Tree_syscall(p, "sys_fork", c, sys_fork_steps(p, c))

Tree_exec(p) ==
    /\ p \in Callers
    /\ Tree_syscall(p, "exec", 0, exec_steps(p))

Tree_sys_mmap(p, start, len, port) ==
    /\ p \in Callers
    /\ Tree_syscall(p, "sys_mmap", <<start, len, port>>, sys_mmap_steps(p, start, len, port))

Tree_sys_munmap(p, start, len) ==
    /\ p \in Callers
    /\ Tree_syscall(p, "sys_munmap", <<start, len>>, sys_munmap_steps(p, start, len))

Tree_sys_set_priority(p, prio) ==
    /\ p \in Callers
    /\ Tree_syscall(p, "sys_set_priority", prio, sys_set_priority_steps(p, prio))

Tree_sys_task_info(p) ==
    /\ p \in Callers
    /\ Tree_syscall(p, "sys_task_info", 0, sys_task_info_steps(p))

\* the running system call takes its next step.  UPSafeCell::exclusive_access
\* panics when the cell is borrowed and shared_access when it is borrowed
\* exclusively (RefCell)
Tree_step ==
    LET s == Head(todo)
        refused == IF s.kind = "borrow_mut" THEN Outstanding(s.cell) # {}
                   ELSE \E i \in Outstanding(s.cell) : borrowed[i].excl
    IN  /\ ~panicked
        /\ todo # <<>>
        /\ todo' = Tail(todo)
        /\ CASE s.kind \in {"borrow_mut", "borrow"} ->
                  /\ panicked' = refused
                  /\ borrowed' = IF refused THEN borrowed
                                 ELSE Append(borrowed, [cell |-> s.cell,
                                                        excl |-> s.kind = "borrow_mut"])
                  /\ call' = [op |-> IF refused THEN "already_borrowed" ELSE s.kind,
                              cell |-> s.cell, nested |-> Len(borrowed)]
                  /\ UNCHANGED <<procs, user_exit_code>>
             [] s.kind = "drop" ->
                  /\ borrowed' = Dropped(s.cell)
                  /\ call' = [op |-> "drop", cell |-> s.cell]
                  /\ UNCHANGED <<procs, user_exit_code, panicked>>
             [] s.kind = "panic" ->
                  /\ panicked' = TRUE
                  /\ call' = [op |-> "assert", of |-> s.cell[1]]
                  /\ UNCHANGED <<procs, user_exit_code, borrowed>>
             [] s.kind = "return" ->
                  /\ procs' = s.procs
                  /\ user_exit_code' = IF is_some(s.mem) THEN unwrap(s.mem) ELSE user_exit_code
                  /\ call' = [op |-> "return", ret |-> s.ret]
                  /\ UNCHANGED <<borrowed, panicked>>
        /\ UNCHANGED <<ncalls, othersTree>>

\* process p, not the init process, exits between two system calls: it
\* becomes a zombie and its children become children of the init process
Tree_exit(p, exit_code) ==
    LET orphans == Proc(p).children
        adopted(q) == IF \E k \in 1..Len(orphans) : orphans[k] = q
                      THEN Some([Proc(q) EXCEPT !.parent = Some(INITPROC)])
                      ELSE procs[q]
    IN  /\ RunningUpTo(MaxTreeCalls)
        /\ todo = <<>>
        /\ p \in Callers \ {INITPROC}
        /\ \E handle_popped \in BOOLEAN :
              procs' = [q \in Pids |->
                          IF q = p
                          THEN Some([exit_process(Proc(p), exit_code, handle_popped)
                                        EXCEPT !.children = <<>>])
                          ELSE IF q = INITPROC
                          THEN Some([Proc(q) EXCEPT !.children = @ \o orphans])
                          ELSE adopted(q)]
        /\ call' = [op |-> "exit", caller |-> p]
        /\ UNCHANGED <<borrowed, todo, user_exit_code, panicked, othersTree>>

NextTree ==
    \/ \E p \in Pids, pid \in (-1)..MaxProcs : Tree_sys_waitpid(p, pid)
    \/ \E p \in Pids, c \in Pids : Tree_sys_fork(p, c)
    \/ \E p \in Pids : Tree_exec(p)
    \/ \E p \in Pids, start \in {0, 1}, len \in {0, PAGE_SIZE}, port \in {0, 1} :
          Tree_sys_mmap(p, start, len, port)
    \/ \E p \in Pids, start \in {0, 1}, len \in {0, PAGE_SIZE} : Tree_sys_munmap(p, start, len)
    \/ \E p \in Pids, prio \in {1, 2} : Tree_sys_set_priority(p, prio)
    \/ \E p \in Pids : Tree_sys_task_info(p)
    \/ Tree_step
    \/ \E p \in Pids, exit_code \in 0..MaxExit : Tree_exit(p, exit_code)

InitTree == InitCommon /\ DLDInit /\ PCBInit /\ SchedInit /\ ProcInit /\ ExecInit /\ MmapInit /\ CopyInit /\ FsInit

SpecTree == InitTree /\ [][NextTree]_vars

----------------------------------------------------------------------------
(* The stride scheduler in a long run: a few tasks that are dispatched and *)
(* suspended until their strides reach the end of the counter's range      *)

othersWrap == <<dld, pcb, procVars, execVars, mmapVars, copyVars, fsVars,
                ledgerVars, lockVars, borrowVars>>

\* the kernel runs and the scheduler may make another call of the long run
WrapRunning == RunningUpTo(MaxWrapCalls)

\* the logical strides after a step that leaves the tasks as t1: what the
\* counter of a task advanced by is added, a new task starts at its stride
LogicalAfter(t1) ==
    [u \in 1..Len(t1) |->
        IF u > Len(tcb) THEN t1[u].stride
        ELSE logical[u] + WrappingSub(t1[u].stride, tcb[u].stride)]

\* a new task is created and add_task puts it into the ready queue
Wrap_add_task ==
    LET t == Len(tcb) + 1
        t1 == Append(tcb, TaskControlBlock_new)
    IN  /\ WrapRunning
        /\ Len(tcb) < MaxWrapTasks
        /\ tcb' = t1
        /\ ready_queue' = add(t1, ready_queue, t)
        /\ enq_order' = Append(enq_order, t)
        /\ passes' = PassesAfter(t1, {})
        /\ logical' = LogicalAfter(t1)
        /\ call' = [op |-> "add", task |-> t]
        /\ UNCHANGED <<current, dispatched, panicked, othersWrap>>

\* the idle processor calls fetch_task and runs the task it gets, if any
Wrap_fetch_task ==
    LET r == fetch(tcb, ready_queue)
        got == IF is_some(r.item) THEN {unwrap(r.item)} ELSE {}
    IN  /\ WrapRunning
        /\ is_none(current)
        /\ ready_queue' = r.data
        /\ current' = r.item
        /\ enq_order' = IF is_some(r.item) THEN RemoveFirst(enq_order, unwrap(r.item))
                        ELSE enq_order
        /\ passes' = PassesAfter(tcb, got)
        /\ dispatched' = dispatched \cup got
        /\ call' = [op |-> "fetch", ret |-> r.item]
        /\ UNCHANGED <<tcb, logical, panicked, othersWrap>>

\* suspend_current_and_run_next, after a yield or a timer tick: the running
\* task's stride advances by its pass and add_task re-enqueues it.  When the
\* sum leaves the counter's range, a kernel built with overflow checks
\* panics at the addition and one built without wraps.
Wrap_suspend_current_and_run_next ==
    /\ WrapRunning
    /\ is_some(current)
    /\ LET t == unwrap(current)
           t1 == [tcb EXCEPT ![t] = stride_update(@)]
           overflows == tcb[t].stride + pass_of(tcb[t]) >= UsizeMod
       IN  \E overflow_checks \in BOOLEAN :
              IF overflows /\ overflow_checks
              THEN /\ panicked' = TRUE
                   /\ call' = [op |-> "suspend", task |-> t]
                   /\ UNCHANGED <<tcb, ready_queue, enq_order, passes, logical, current>>
              ELSE /\ panicked' = FALSE
                   /\ tcb' = t1
                   /\ ready_queue' = add(t1, ready_queue, t)
                   /\ enq_order' = Append(enq_order, t)
                   /\ passes' = PassesAfter(t1, {})
                   /\ logical' = LogicalAfter(t1)
                   /\ call' = [op |-> "suspend", task |-> t]
                   /\ current' = None
    /\ UNCHANGED <<dispatched, othersWrap>>

\* the running task calls sys_set_priority(prio)
Wrap_sys_set_priority(prio) ==
    /\ WrapRunning
    /\ is_some(current)
    /\ LET t == unwrap(current)
           r == sys_set_priority(tcb[t], prio)
           t1 == [tcb EXCEPT ![t] = r.inner]
       IN  /\ tcb' = t1
           /\ passes' = PassesAfter(t1, {})
           /\ logical' = LogicalAfter(t1)
           /\ call' = [op |-> "sys_set_priority", task |-> t, prio |-> prio,
                       ret |-> r.ret]
    /\ UNCHANGED <<ready_queue, current, enq_order, dispatched, panicked, othersWrap>>

NextWrap ==
    \/ Wrap_add_task
    \/ Wrap_fetch_task
    \/ Wrap_suspend_current_and_run_next
    \/ \E prio \in 1..2 : Wrap_sys_set_priority(prio)

InitWrap == InitCommon /\ DLDInit /\ PCBIdle /\ SchedInit /\ ProcInit /\ ExecInit /\ MmapInit /\ CopyInit /\ FsInit

SpecWrap == InitWrap /\ [][NextWrap]_vars

----------------
(* Claims about the file system's lock *)

\* C24: no Inode operation tries to take the file system's lock while its
\* own call chain holds it; in particular destroy_link has dropped the lock
\* before it calls clear on the target, so no operation deadlocks on itself.
C24_NoSelfDeadlock ==
    /\ deadlocked = {}
    /\ call.op = "lock" => call.holder # call.chain

\* C24 witness: clear, called by destroy_link, has taken the lock
C24_Witness ==
    \E c \in Chains :
        /\ Len(stacks[c]) = 2
        /\ stacks[c][1].fn = "destroy_link"
        /\ stacks[c][2].fn = "clear"
        /\ stacks[c][2].holds
        /\ fs_lock = c

\* C25: every mutation of file-system state by an Inode operation (an
\* inode's nlink or size, the allocation or freeing of data blocks, the
\* writing or zeroing of a directory entry) is made while the operation
\* holds the file system's lock, so the updates of two mutating operations
\* never interleave.
C25_MutationsUnderLock ==
    call.op = "mutate" => call.holder = call.chain

\* every mutation but the zeroing of the entry by destroy_link is made under
\* the lock
C25_MutationsUnderLockButUnlink ==
    (call.op = "mutate" /\ ~(call.fn = "destroy_link" /\ call.arg = "dirent"))
        => call.holder = call.chain

\* a reachable state: destroy_link has zeroed the entry while another chain,
\* holding the lock, is in the middle of its own update of the directory
C25_InterleavedUpdate ==
    /\ call.op = "mutate" /\ call.fn = "destroy_link" /\ call.arg = "dirent"
    /\ call.holder \notin {0, call.chain}
    /\ \E c \in Chains \ {call.chain} :
          /\ stacks[c] # <<>>
          /\ stacks[c][Len(stacks[c])].fn = "create_child"
          /\ stacks[c][Len(stacks[c])].pc > 5


----------------------------------------------------------------------------
(* Claims about the borrows of the control blocks *)

\* the outstanding borrows of the inner state of a process control block
PCBBorrows == {i \in 1..Len(borrowed) : borrowed[i].cell[1] = "pcb"}

\* C26: no system call of a process (sys_waitpid, sys_fork with fork, exec,
\* sys_mmap, sys_munmap, sys_set_priority, sys_task_info) asks for the inner
\* state of a process control block while a borrow of that inner state is
\* outstanding: UPSafeCell never refuses a borrow, and the borrows that are
\* outstanding at the same time are of different processes
C26_NoNestedBorrowOfSameInner ==
    /\ call.op # "already_borrowed"
    /\ \A i, j \in PCBBorrows : i # j => borrowed[i].cell # borrowed[j].cell

\* sys_waitpid, holding the caller's inner state, has borrowed a child's
C26_Witness ==
    /\ call.op = "borrow_mut"
    /\ call.nested >= 1
    /\ Cardinality(PCBBorrows) = 2

\* exec has borrowed the caller's inner state for the third time
C26_WitnessExec ==
    /\ call.op = "borrow_mut"
    /\ call.cell[1] = "tcb"
    /\ Len(todo) = 2

----------------------------------------------------------------------------
(* Claims about thread_count *)

\* the threads of a process: the occupied slots of its thread table
OccupiedSlots(tasks) == {i \in 1..Len(tasks) : is_some(tasks[i])}

\* C27: thread_count() is the number of threads of the process, that is the
\* number of occupied slots of its thread table, so that the assertion
\* thread_count() == 1 of fork and exec holds exactly when the process has
\* one thread
C27_ThreadCountCountsThreads ==
    (call.op = "assert" /\ call.of = "thread_count")
        => /\ thread_count(pcb) = Cardinality(OccupiedSlots(pcb.tasks))
           /\ Cardinality(OccupiedSlots(pcb.tasks)) # 1

\* what thread_count() is: the length of the table, which is the number of
\* threads when the table has no empty slot and is more otherwise
C27_ThreadCountIsTableLength ==
    /\ thread_count(pcb) = Len(pcb.tasks)
    /\ thread_count(pcb) >= Cardinality(OccupiedSlots(pcb.tasks))
    /\ (\A i \in 1..Len(pcb.tasks) : is_some(pcb.tasks[i]))
          => thread_count(pcb) = Cardinality(OccupiedSlots(pcb.tasks))

\* a reachable state: the assertion of fork or exec has failed in a process
\* whose only thread is its main thread
C27_SingleThreadRefused ==
    /\ call.op = "assert"
    /\ call.of = "thread_count"
    /\ panicked
    /\ OccupiedSlots(pcb.tasks) = {1}

----------------------------------------------------------------------------
(* Claims about tombstones *)

\* find(name) on the disk d gives nothing, or the inode of a live entry
\* named name
FindsLiveEntry(d, name) ==
    LET r == find(d, name)
    IN  is_some(r.ret) => \E i \in LiveNamed(d, name) : Entries(d)[i].inode_id = unwrap(r.ret)

\* ls on the disk d lists the live entries and nothing else
ListsLiveEntries(d) ==
    ls(d) = [k \in 1..Cardinality(LiveAt(d)) |->
                Entries(d)[CHOOSE i \in LiveAt(d) :
                              Cardinality({j \in LiveAt(d) : j <= i}) = k].name]

\* C28: an entry that destroy_link has zeroed is absent: find, which is also
\* the lookup of destroy_link and, as find_inode_id, the duplicate check of
\* create, returns no handle for it whatever the name, the empty name
\* included, and ls does not list it
C28_TombstonesAreAbsent ==
    ~panicked => /\ \A name \in Names : FindsLiveEntry(disk, name)
                 /\ ListsLiveEntries(disk)

\* for names that are not empty a tombstone is never matched
C28_TombstonesAreAbsentForNames ==
    ~panicked => \A name \in Names \ {EmptyName} : FindsLiveEntry(disk, name)

\* a reachable state: destroy_link has zeroed an entry, no live entry has the
\* empty name, and find of the empty name gives a handle to inode 0, the
\* root directory, while ls lists the zeroed entry as the empty name
C28_TombstoneFound ==
    /\ call.op = "destroy_link"
    /\ call.ret = 0
    /\ ~panicked
    /\ LiveNamed(disk, EmptyName) = {}
    /\ find(disk, EmptyName).ret = Some(0)
    /\ \E k \in 1..Len(ls(disk)) : ls(disk)[k] = EmptyName

----------------------------------------------------------------------------
(* Claims about the detector under the protocol of its callers *)

\* C29: alloc[tid][j] never underflows: when a thread releases what an
\* earlier request of its own, answered 0, let it acquire (one release for
\* each such request), alloc[tid][j] >= 1 at the release, also when the
\* request was answered 0 with no unit available (need set to 1) and the
\* unit came from the release of another thread
C29_AllocNeverUnderflows ==
    call.op = "release_resource" => call.alloc >= 1

\* an underflowing release is the release of a thread whose last request
\* found no unit available: its need is still 1
C29_UnderflowAfterWaiting ==
    (call.op = "release_resource" /\ call.alloc = 0)
        => NeedOf(dld, call.tid, call.res) = 1

\* a reachable state: a thread that acquired after waiting has released and
\* alloc had 0 for it
C29_ReleaseAfterWaiting ==
    /\ call.op = "release_resource"
    /\ call.alloc = 0
    /\ ledger.owed[<<call.tid, call.res>>] = 0

\* the units of j that alloc records for the registered threads 0..t
RECURSIVE AllocUpTo(_, _, _)
AllocUpTo(self, t, j) ==
    IF t < 0 THEN 0
    ELSE (IF t \in Registered(self) THEN AllocOf(self, t, j) ELSE 0) + AllocUpTo(self, t - 1, j)

\* the units of j the detector accounts for
Accounted(self, j) == AvailOf(self, j) + AllocUpTo(self, Len(self.alloc) - 1, j)

\* C30: units are conserved: for every resource j that was added, in every
\* state that add_thread, add_res, get_resource (answering 0 or -1) and
\* matched calls of release_resource lead to, avail[j] plus the sum of
\* alloc[tid][j] over the registered threads is the number of units j was
\* added with
C30_UnitsConserved ==
    \A j \in Present(dld) : Accounted(dld, j) = unwrap(ledger.given[j])

\* units are conserved up to the first release that finds alloc at 0
C30_UnitsConservedUntilUnderflow ==
    [][(\A j \in Present(dld) : Accounted(dld, j) = unwrap(ledger.given[j]))
        /\ ~(call'.op = "release_resource" /\ call'.alloc = 0)
        => (\A j \in Present(dld') : Accounted(dld', j) = unwrap(ledger'.given[j]))]_vars

----------------------------------------------------------------------------
(* Claims about the wrap-around of the stride counter *)

\* the stride counter of task u has wrapped around
Wrapped(u) == logical[u] >= UsizeMod

\* the logical strides of the tasks of Q are within BIG_STRIDE / 2 of each other
CloseStrides(Q) == \A a, b \in Q : logical[a] - logical[b] <= BIG_STRIDE \div 2

\* this step is a fetch that returns a task
FetchStepOfLongRun ==
    /\ ncalls' = ncalls + 1
    /\ call'.op = "fetch"
    /\ is_some(call'.ret)

\* C31: the order of dispatch stays the order of the strides across the
\* wrap-around of the counter: when the logical strides of the queued tasks
\* are within BIG_STRIDE / 2 of each other, fetch does not return a task
\* whose counter has wrapped while a queued task has a smaller logical stride
C31_DispatchOrderAcrossWrapAround ==
    [][(FetchStepOfLongRun /\ CloseStrides(Queued(ready_queue))) =>
        ~(/\ Wrapped(unwrap(call'.ret))
          /\ \E q \in Queued(ready_queue) : logical[q] < logical[unwrap(call'.ret)])]_vars

\* as long as no queued task's counter has wrapped, fetch returns a task of
\* least logical stride
C31_DispatchOrderBeforeWrapAround ==
    [][(FetchStepOfLongRun /\ \A q \in Queued(ready_queue) : ~Wrapped(q)) =>
        \A q \in Queued(ready_queue) : logical[unwrap(call'.ret)] <= logical[q]]_vars

\* a reachable state: fetch has returned a task whose counter has wrapped,
\* out of a queue of tasks with close strides, and left behind a task whose
\* logical stride is smaller
C31_WrappedTaskPreferred ==
    /\ call.op = "fetch"
    /\ is_some(call.ret)
    /\ Wrapped(unwrap(call.ret))
    /\ CloseStrides(Queued(ready_queue) \cup {unwrap(call.ret)})
    /\ \E q \in Queued(ready_queue) : logical[q] < logical[unwrap(call.ret)]
====
